---- MODULE Spec2Model ----
(***************************************************************************)
(* Model of the inigo INI parser (inigo_parser.go): the Config / Section / *)
(* Param data model, the line-level lexical helpers, and the include       *)
(* engine (Load, Parse, loadFile, parse, handleInclude, loadDir).          *)
(*                                                                         *)
(* Go strings are modelled as sequences of one-character strings, so that  *)
(* the lexical helpers are computed byte by byte as the code computes them.*)
(* A *Section pointer is modelled by the name under which the Section is   *)
(* stored in Config.sections (sections are never removed or replaced).     *)
(*                                                                         *)
(* The typed accessors (parseBool, parseInt), the struct mapping of        *)
(* inigo_struct.go (Marshal, SaveFrom, LoadInto, ApplyInto) and parseArgs  *)
(* of the command line are modelled as well.  Spec is a single Load or     *)
(* Parse call, SpecTwo two calls taking turns, SpecApply the functions     *)
(* applied to inputs of bounded length, and SpecStruct SaveFrom followed   *)
(* by LoadInto.                                                            *)
(***************************************************************************)
EXTENDS Integers, Sequences, FiniteSets, TLC

\* ------------------------------------------------------------------------
\* Bounds of the model
\* ------------------------------------------------------------------------

\* Maximum number of lines of the generated top-level source.
MaxLines == 2

\* ------------------------------------------------------------------------
\* Bytes and strings
\* ------------------------------------------------------------------------

\* The printable ASCII bytes in ascending byte order (tab first), used to
\* compare strings the way sort.Strings does.
Ascii ==
  << "\t", " ", "!", "\"", "#", "$", "%", "&", "'", "(", ")", "*", "+", ",",
     "-", ".", "/", "0", "1", "2", "3", "4", "5", "6", "7", "8", "9", ":",
     ";", "<", "=", ">", "?", "@",
     "A", "B", "C", "D", "E", "F", "G", "H", "I", "J", "K", "L", "M", "N",
     "O", "P", "Q", "R", "S", "T", "U", "V", "W", "X", "Y", "Z",
     "[", "\\", "]", "^", "_",
     "a", "b", "c", "d", "e", "f", "g", "h", "i", "j", "k", "l", "m", "n",
     "o", "p", "q", "r", "s", "t", "u", "v", "w", "x", "y", "z",
     "{", "|", "}", "~" >>

Code(ch) == CHOOSE i \in 1..Len(Ascii) : Ascii[i] = ch

UpperLetters ==
  << "A", "B", "C", "D", "E", "F", "G", "H", "I", "J", "K", "L", "M", "N",
     "O", "P", "Q", "R", "S", "T", "U", "V", "W", "X", "Y", "Z" >>

LowerLetters ==
  << "a", "b", "c", "d", "e", "f", "g", "h", "i", "j", "k", "l", "m", "n",
     "o", "p", "q", "r", "s", "t", "u", "v", "w", "x", "y", "z" >>

Range(s) == { s[i] : i \in 1..Len(s) }

isAlpha(ch) == ch \in Range(LowerLetters) \cup Range(UpperLetters)

isDigit(ch) == ch \in {"0", "1", "2", "3", "4", "5", "6", "7", "8", "9"}

\* unicode.IsSpace restricted to ASCII.
IsSpace(ch) == ch \in {" ", "\t", "\n", "\r", "\f"}

ToLowerByte(ch) ==
  IF \E i \in 1..26 : UpperLetters[i] = ch
    THEN LowerLetters[CHOOSE i \in 1..26 : UpperLetters[i] = ch]
    ELSE ch

\* strings.ToLower
ToLower(s) == [i \in 1..Len(s) |-> ToLowerByte(s[i])]


ToUpperByte(ch) ==
  IF \E i \in 1..26 : LowerLetters[i] = ch
    THEN UpperLetters[CHOOSE i \in 1..26 : LowerLetters[i] = ch]
    ELSE ch

\* strings.ToUpper
ToUpper(s) == [i \in 1..Len(s) |-> ToUpperByte(s[i])]

\* s[from:] with a 0-based Go index
From(s, from) == SubSeq(s, from + 1, Len(s))

\* s[:to] with a 0-based Go index
Upto(s, to) == SubSeq(s, 1, to)

\* s[from:to] with 0-based Go indices
Slice(s, from, to) == SubSeq(s, from + 1, to)

\* strings.HasPrefix
HasPrefix(s, prefix) ==
  Len(s) >= Len(prefix) /\ SubSeq(s, 1, Len(prefix)) = prefix

\* strings.HasSuffix
HasSuffix(s, suffix) ==
  Len(s) >= Len(suffix) /\ SubSeq(s, Len(s) - Len(suffix) + 1, Len(s)) = suffix

\* strings.IndexByte: 0-based index of the first ch in s, or -1
IndexByte(s, ch) ==
  IF \E i \in 1..Len(s) : s[i] = ch
    THEN (CHOOSE i \in 1..Len(s) : s[i] = ch /\ \A j \in 1..(i - 1) : s[j] # ch) - 1
    ELSE -1

\* strings.IndexFunc(s, unicode.IsSpace)
IndexSpace(s) ==
  IF \E i \in 1..Len(s) : IsSpace(s[i])
    THEN (CHOOSE i \in 1..Len(s) :
            IsSpace(s[i]) /\ \A j \in 1..(i - 1) : ~IsSpace(s[j])) - 1
    ELSE -1

\* strings.TrimSpace
TrimSpace(s) ==
  IF \A i \in 1..Len(s) : IsSpace(s[i])
    THEN << >>
    ELSE LET first == CHOOSE i \in 1..Len(s) :
                        ~IsSpace(s[i]) /\ \A j \in 1..(i - 1) : IsSpace(s[j])
             last  == CHOOSE i \in 1..Len(s) :
                        ~IsSpace(s[i]) /\ \A j \in (i + 1)..Len(s) : IsSpace(s[j])
         IN  SubSeq(s, first, last)

\* Byte-wise string comparison (Go's < on strings).
RECURSIVE StrLess(_, _)
StrLess(a, b) ==
  IF a = << >> THEN b # << >>
  ELSE IF b = << >> THEN FALSE
  ELSE IF Head(a) = Head(b) THEN StrLess(Tail(a), Tail(b))
  ELSE Code(Head(a)) < Code(Head(b))

\* sort.Strings applied to the elements of a set of distinct strings.
RECURSIVE SortStrings(_)
SortStrings(S) ==
  IF S = {} THEN << >>
  ELSE LET m == CHOOSE x \in S : \A y \in S \ {x} : StrLess(x, y)
       IN  <<m>> \o SortStrings(S \ {m})

\* ------------------------------------------------------------------------
\* Errors (the constant part of each message)
\* ------------------------------------------------------------------------

Nil == "nil"

ErrCircular == "circular include detected"

ErrOpen == "failed to open"

ErrRead == "read: is a directory"

ErrReadDir == "failed to read directory"

ErrNoBaseDir == "cannot resolve paths without a base directory"

ErrMissingPath == "missing path"

ErrUnterminatedPath == "unterminated quoted path"

ErrUnterminatedHeader == "unterminated section header"

ErrEmptySectionName == "empty section name"

ErrInvalidName == "invalid parameter name"

ErrUnterminatedString == "unterminated single-quoted string"

\* ------------------------------------------------------------------------
\* Pure parsing functions
\* ------------------------------------------------------------------------

\* The loop of stripComment from byte index i (0-based) on.
RECURSIVE stripCommentFrom(_, _, _)
stripCommentFrom(line, i, inQuote) ==
  IF i >= Len(line) THEN line
  ELSE LET ch == line[i + 1] IN
    IF inQuote
      THEN IF ch = "\\" /\ i + 1 < Len(line) /\ line[i + 2] = "'"
             THEN stripCommentFrom(line, i + 2, TRUE)
           ELSE IF ch = "'"
             THEN IF i + 1 < Len(line) /\ line[i + 2] = "'"
                    THEN stripCommentFrom(line, i + 2, TRUE)
                    ELSE stripCommentFrom(line, i + 1, FALSE)
           ELSE stripCommentFrom(line, i + 1, TRUE)
      ELSE IF ch = "'" THEN stripCommentFrom(line, i + 1, TRUE)
           ELSE IF ch = "#" THEN Upto(line, i)
           ELSE stripCommentFrom(line, i + 1, FALSE)

\* The loop of stripComment without the backslash escape.
RECURSIVE stripCommentFrom_NoBackslash(_, _, _)
stripCommentFrom_NoBackslash(line, i, inQuote) ==
  IF i >= Len(line) THEN line
  ELSE LET ch == line[i + 1] IN
    IF inQuote
      THEN IF ch = "'"
             THEN IF i + 1 < Len(line) /\ line[i + 2] = "'"
                    THEN stripCommentFrom_NoBackslash(line, i + 2, TRUE)
                    ELSE stripCommentFrom_NoBackslash(line, i + 1, FALSE)
           ELSE stripCommentFrom_NoBackslash(line, i + 1, TRUE)
      ELSE IF ch = "'" THEN stripCommentFrom_NoBackslash(line, i + 1, TRUE)
           ELSE IF ch = "#" THEN Upto(line, i)
           ELSE stripCommentFrom_NoBackslash(line, i + 1, FALSE)

stripComment_NoBackslash(line) == stripCommentFrom_NoBackslash(line, 0, FALSE)


stripComment(line) == stripCommentFrom(line, 0, FALSE)

parseSectionHeader(line) ==
  LET end == IndexByte(line, "]") IN
  IF end < 0 THEN [name |-> << >>, err |-> ErrUnterminatedHeader]
  ELSE LET name == TrimSpace(Slice(line, 1, end)) IN
       IF name = << >> THEN [name |-> << >>, err |-> ErrEmptySectionName]
       ELSE [name |-> name, err |-> Nil]

isValidParamName(name) ==
  /\ name # << >>
  /\ isAlpha(name[1]) \/ name[1] = "_"
  /\ \A i \in 2..Len(name) :
       isAlpha(name[i]) \/ isDigit(name[i]) \/ name[i] = "_" \/ name[i] = "$"

\* The loop of parseQuotedValue from byte index i (0-based) on, buf being
\* the bytes written so far.
RECURSIVE parseQuotedValueFrom(_, _, _)
parseQuotedValueFrom(raw, i, buf) ==
  IF i >= Len(raw) THEN [value |-> << >>, err |-> ErrUnterminatedString]
  ELSE LET ch == raw[i + 1] IN
    IF ch = "\\" /\ i + 1 < Len(raw) /\ raw[i + 2] = "'"
      THEN parseQuotedValueFrom(raw, i + 2, Append(buf, "'"))
    ELSE IF ch = "'"
      THEN IF i + 1 < Len(raw) /\ raw[i + 2] = "'"
             THEN parseQuotedValueFrom(raw, i + 2, Append(buf, "'"))
             ELSE [value |-> buf, err |-> Nil]
    ELSE parseQuotedValueFrom(raw, i + 1, Append(buf, ch))

\* The loop of parseQuotedValue without the backslash escape.
RECURSIVE parseQuotedValueFrom_NoBackslash(_, _, _)
parseQuotedValueFrom_NoBackslash(raw, i, buf) ==
  IF i >= Len(raw) THEN [value |-> << >>, err |-> ErrUnterminatedString]
  ELSE LET ch == raw[i + 1] IN
    IF ch = "'"
      THEN IF i + 1 < Len(raw) /\ raw[i + 2] = "'"
             THEN parseQuotedValueFrom_NoBackslash(raw, i + 2, Append(buf, "'"))
             ELSE [value |-> buf, err |-> Nil]
    ELSE parseQuotedValueFrom_NoBackslash(raw, i + 1, Append(buf, ch))

parseQuotedValue_NoBackslash(raw) ==
  parseQuotedValueFrom_NoBackslash(raw, 1, << >>)

parseQuotedValue(raw) == parseQuotedValueFrom(raw, 1, << >>)

parseValue(raw) ==
  IF raw = << >> THEN [value |-> << >>, err |-> Nil]
  ELSE IF raw[1] = "'" THEN parseQuotedValue(raw)
  ELSE [value |-> raw, err |-> Nil]

\* strings.Cut splitting at the last "=" of the line.
CutEquals_LastEquals(line) ==
  LET hits == { i \in 1..Len(line) : line[i] = "=" } IN
  IF hits = {} THEN [before |-> line, after |-> << >>, found |-> FALSE]
  ELSE LET i == (CHOOSE h \in hits : \A g \in hits : g <= h) - 1 IN
       [before |-> Upto(line, i), after |-> From(line, i + 1), found |-> TRUE]


\* strings.Cut(line, "=")
CutEquals(line) ==
  LET i == IndexByte(line, "=") IN
  IF i < 0 THEN [before |-> line, after |-> << >>, found |-> FALSE]
  ELSE [before |-> Upto(line, i), after |-> From(line, i + 1), found |-> TRUE]

parseKeyValue(line) ==
  LET cut  == CutEquals(line)
      name == TrimSpace(cut.before)
  IN  IF ~isValidParamName(name)
        THEN [name |-> << >>, value |-> << >>, err |-> ErrInvalidName]
      ELSE IF ~cut.found
        THEN [name |-> name, value |-> << >>, err |-> Nil]
      ELSE LET v == parseValue(TrimSpace(cut.after)) IN
           IF v.err # Nil
             THEN [name |-> << >>, value |-> << >>, err |-> v.err]
             ELSE [name |-> name, value |-> v.value, err |-> Nil]

KwInclude == << "i", "n", "c", "l", "u", "d", "e" >>

KwIncludeIfExists == KwInclude \o << "_", "i", "f", "_", "e", "x", "i", "s", "t", "s" >>

KwIncludeDir == KwInclude \o << "_", "d", "i", "r" >>

\* matchDirective without the test of the byte after the keyword.
matchDirective_PrefixOnly(lower, original, name) ==
  IF ~HasPrefix(lower, name) \/ Len(original) <= Len(name)
    THEN [matched |-> FALSE, directive |-> << >>, rest |-> << >>]
    ELSE [matched |-> TRUE, directive |-> name,
          rest |-> TrimSpace(From(original, Len(name)))]


matchDirective(lower, original, name) ==
  IF ~HasPrefix(lower, name) \/ Len(original) <= Len(name)
    THEN [matched |-> FALSE, directive |-> << >>, rest |-> << >>]
  ELSE LET next == original[Len(name) + 1] IN
    IF next # " " /\ next # "\t" /\ next # "'"
      THEN [matched |-> FALSE, directive |-> << >>, rest |-> << >>]
      ELSE [matched |-> TRUE, directive |-> name,
            rest |-> TrimSpace(From(original, Len(name)))]

\* The switch at the head of handleInclude: the first keyword that matches,
\* longest names first.
DirectiveOf(line) ==
  LET lower == ToLower(line)
      m1 == matchDirective(lower, line, KwIncludeIfExists)
      m2 == matchDirective(lower, line, KwIncludeDir)
      m3 == matchDirective(lower, line, KwInclude)
  IN  IF m1.matched THEN m1 ELSE IF m2.matched THEN m2 ELSE m3

parseIncludePath(arg) ==
  LET s == TrimSpace(arg) IN
  IF s = << >> THEN [path |-> << >>, err |-> ErrMissingPath]
  ELSE IF s[1] = "'"
    THEN LET end == IndexByte(From(s, 1), "'") IN
         IF end < 0 THEN [path |-> << >>, err |-> ErrUnterminatedPath]
         ELSE [path |-> Slice(s, 1, end + 1), err |-> Nil]
  ELSE LET idx == IndexSpace(s) IN
       IF idx >= 0 THEN [path |-> Upto(s, idx), err |-> Nil]
       ELSE [path |-> s, err |-> Nil]

\* ------------------------------------------------------------------------
\* Paths (package path/filepath on a slash-separated system)
\* ------------------------------------------------------------------------

\* The elements of a path: the maximal runs of bytes other than "/".
RECURSIVE Elements(_)
Elements(path) ==
  IF path = << >> THEN << >>
  ELSE LET i == IndexByte(path, "/") IN
       IF i < 0 THEN << path >>
       ELSE IF i = 0 THEN Elements(From(path, 1))
       ELSE << Upto(path, i) >> \o Elements(From(path, i + 1))

\* Lexical processing of "." and ".." for a rooted path: out is the stack of
\* elements kept so far.
RECURSIVE CleanElements(_, _)
CleanElements(elems, out) ==
  IF elems = << >> THEN out
  ELSE LET e == Head(elems) IN
       IF e = << "." >> THEN CleanElements(Tail(elems), out)
       ELSE IF e = << ".", "." >>
         THEN CleanElements(Tail(elems),
                            IF out = << >> THEN out ELSE Upto(out, Len(out) - 1))
       ELSE CleanElements(Tail(elems), Append(out, e))

RECURSIVE JoinElements(_)
JoinElements(elems) ==
  IF elems = << >> THEN << >>
  ELSE << "/" >> \o Head(elems) \o JoinElements(Tail(elems))

\* filepath.Clean for a rooted path.
Clean(path) ==
  LET out == CleanElements(Elements(path), << >>) IN
  IF out = << >> THEN << "/" >> ELSE JoinElements(out)

\* filepath.IsAbs
IsAbs(path) == HasPrefix(path, << "/" >>)

\* filepath.Join(dir, path) for a rooted dir.
Join(dir, path) == Clean(dir \o << "/" >> \o path)

LastSlash(path) ==
  IF \E i \in 1..Len(path) : path[i] = "/"
    THEN CHOOSE i \in 1..Len(path) :
           path[i] = "/" /\ \A j \in (i + 1)..Len(path) : path[j] # "/"
    ELSE 0

\* filepath.Dir for a rooted path.
Dir(path) == Clean(Upto(path, LastSlash(path)))

\* filepath.Base
Base(path) == From(path, LastSlash(path))


\* ------------------------------------------------------------------------
\* The file system the parser runs on
\* ------------------------------------------------------------------------
\* /
Root == << "/" >>

\* /d
Cwd == << "/", "d" >>

\* /d/a.conf
PathA == << "/", "d", "/", "a", ".", "c", "o", "n", "f" >>

\* /d/b.conf
PathB == << "/", "d", "/", "b", ".", "c", "o", "n", "f" >>

\* /d/g.conf
PathG == << "/", "d", "/", "g", ".", "c", "o", "n", "f" >>

\* /d/y.conf
PathY == << "/", "d", "/", "y", ".", "c", "o", "n", "f" >>

\* /d/c
DirC == << "/", "d", "/", "c" >>

\* /d/c/10.conf
PathC10 == << "/", "d", "/", "c", "/", "1", "0", ".", "c", "o", "n", "f" >>

\* /d/c/2.conf
PathC2 == << "/", "d", "/", "c", "/", "2", ".", "c", "o", "n", "f" >>

\* /d/c/.h.conf
PathCHidden == << "/", "d", "/", "c", "/", ".", "h", ".", "c", "o", "n", "f" >>

\* /d/c/r.txt
PathCTxt == << "/", "d", "/", "c", "/", "r", ".", "t", "x", "t" >>

\* /d/c/s.conf
PathCSub == << "/", "d", "/", "c", "/", "s", ".", "c", "o", "n", "f" >>

\* /d/c/l.conf
PathCLink == << "/", "d", "/", "c", "/", "l", ".", "c", "o", "n", "f" >>

\* /d/e
DirE == << "/", "d", "/", "e" >>

\* /d/e/f.conf
PathEF == << "/", "d", "/", "e", "/", "f", ".", "c", "o", "n", "f" >>

\* /d/e/g.conf
PathEG == << "/", "d", "/", "e", "/", "g", ".", "c", "o", "n", "f" >>

\* /d/z
DirZ == << "/", "d", "/", "z" >>

\* /d/z/q.conf
PathZQ == << "/", "d", "/", "z", "/", "q", ".", "c", "o", "n", "f" >>

\* /d/z/r.conf
PathZR == << "/", "d", "/", "z", "/", "r", ".", "c", "o", "n", "f" >>

\* The lines the generated source /d/a.conf is made of.

\* k=1
LineAssign == << "k", "=", "1" >>

\*  K = 'v#' # c
LineAssignQuoted == << " ", "K", " ", "=", " ", "'", "v", "#", "'", " ", "#", " ", "c" >>

\* [s]
LineHeaderS == << "[", "s", "]" >>

\* include 'b.conf'
LineIncludeB == << "i", "n", "c", "l", "u", "d", "e", " ", "'", "b", ".", "c", "o", "n", "f", "'" >>

\* include_if_exists 'x.conf'
LineIfExistsMissing == << "i", "n", "c", "l", "u", "d", "e", "_", "i", "f", "_", "e", "x", "i", "s", "t", "s", " ", "'", "x", ".", "c", "o", "n", "f", "'" >>

\* INCLUDE_IF_EXISTS<TAB>./a.conf
LineIfExistsSelf == << "I", "N", "C", "L", "U", "D", "E", "_", "I", "F", "_", "E", "X", "I", "S", "T", "S", "\t", ".", "/", "a", ".", "c", "o", "n", "f" >>

\* include_dir 'c'
LineIncludeDirC == << "i", "n", "c", "l", "u", "d", "e", "_", "d", "i", "r", " ", "'", "c", "'" >>

\* include /d/./a.conf
LineIncludeAbsSelf == << "i", "n", "c", "l", "u", "d", "e", " ", "/", "d", "/", ".", "/", "a", ".", "c", "o", "n", "f" >>

\* [s
LineBadHeader == << "[", "s" >>

\* include 'y.conf'
LineIncludeY == << "i", "n", "c", "l", "u", "d", "e", " ", "'", "y", ".", "c", "o", "n", "f", "'" >>

\* include 'x.conf'
LineIncludeMissing == << "i", "n", "c", "l", "u", "d", "e", " ", "'", "x", ".", "c", "o", "n", "f", "'" >>

\* include '
LineIncludeBadPath == << "i", "n", "c", "l", "u", "d", "e", " ", "'" >>

LinePool ==
  { LineAssign,
    LineAssignQuoted,
    LineHeaderS,
    LineIncludeB,
    LineIfExistsMissing,
    LineIfExistsSelf,
    LineIncludeDirC,
    LineIncludeAbsSelf,
    LineBadHeader,
    LineIncludeY,
    LineIncludeMissing,
    LineIncludeBadPath }

ContentB ==
  << << "#", " ", "b", ".", "c", "o", "n", "f" >>,
     << "[", "s", "]" >>,
     << "K", " ", "=", " ", "2" >>,
     << "i", "n", "c", "l", "u", "d", "e", " ", "'", "e", "/", "f", ".", "c", "o", "n", "f", "'" >>,
     << "k", "2" >> >>

ContentG ==
  << << "K", " ", "=", " ", "d", "g" >> >>

ContentY ==
  << << "i", "n", "c", "l", "u", "d", "e", "_", "d", "i", "r", " ", "'", "z", "'" >> >>

ContentC10 ==
  << << "k", " ", "=", " ", "t", "e", "n" >> >>

ContentC2 ==
  << << "k", " ", "=", " ", "t", "w", "o" >> >>

ContentCHidden ==
  << << "k", " ", "=", " ", "h", "i", "d", "d", "e", "n" >> >>

ContentCTxt ==
  << << "k", " ", "=", " ", "t", "x", "t" >> >>

ContentEF ==
  << << "k", " ", "=", " ", "e", " ", " ", " ", "#", " ", "s", "e", "t", " ", "b", "y", " ", "f" >>,
     << >>,
     << "i", "n", "c", "l", "u", "d", "e", " ", "'", "g", ".", "c", "o", "n", "f", "'" >> >>

ContentEG ==
  << << "[", " ", "t", " ", "]" >>,
     << "K", "=", "'", "g", "'" >> >>

ContentZQ ==
  << << "i", "n", "c", "l", "u", "d", "e", "_", "i", "f", "_", "e", "x", "i", "s", "t", "s", " ", "'", ".", ".", "/", "e", "/", ".", ".", "/", "a", ".", "c", "o", "n", "f", "'" >> >>

File(lines) == [kind |-> "file", lines |-> lines, target |-> << >>]

Directory == [kind |-> "dir", lines |-> << >>, target |-> << >>]

Symlink(target) == [kind |-> "symlink", lines |-> << >>, target |-> target]

\* The file system with /d/a.conf holding the given lines.  /d/c/s.conf is
\* a directory, /d/c/l.conf a symbolic link to the file /d/g.conf and
\* /d/z/r.conf a symbolic link to the directory /d/e.
FileSystem(top) ==
  (Root :> Directory) @@ (Cwd :> Directory) @@
  (PathA :> File(top)) @@ (PathB :> File(ContentB)) @@
  (PathG :> File(ContentG)) @@ (PathY :> File(ContentY)) @@
  (DirC :> Directory) @@ (PathC10 :> File(ContentC10)) @@
  (PathC2 :> File(ContentC2)) @@ (PathCHidden :> File(ContentCHidden)) @@
  (PathCTxt :> File(ContentCTxt)) @@ (PathCSub :> Directory) @@
  (PathCLink :> Symlink(PathG)) @@
  (DirE :> Directory) @@ (PathEF :> File(ContentEF)) @@
  (PathEG :> File(ContentEG)) @@
  (DirZ :> Directory) @@ (PathZQ :> File(ContentZQ)) @@
  (PathZR :> Symlink(DirE))

\* All sequences over S of length at most n.
RECURSIVE SeqsUpTo(_, _)
SeqsUpTo(S, n) ==
  IF n = 0 THEN { << >> }
  ELSE LET shorter == SeqsUpTo(S, n - 1) IN
       shorter \cup { Append(s, x) : s \in { t \in shorter : Len(t) = n - 1 }, x \in S }

\* The paths Load is called with: a relative one and a rooted one that is
\* not in clean form.
\* a.conf
ArgRelA == << "a", ".", "c", "o", "n", "f" >>

\* /d/e/../y.conf
ArgAbsY == << "/", "d", "/", "e", "/", ".", ".", "/", "y", ".", "c", "o", "n", "f" >>

LoadArgs == { ArgRelA, ArgAbsY }

\* ------------------------------------------------------------------------
\* State
\* ------------------------------------------------------------------------

VARIABLES
  fs,        \* the file system: clean rooted path -> entry
  pc,        \* "init" (parser constructed), "running", "done"
  call,      \* the entry point in progress: "none", "Load" or "Parse"
  config,    \* parser.config: [sections, names, defaultSection]
  section,   \* parser.section: the name of the active section
  visited,   \* parser.visited: the set of paths loadFile has marked
  stack,     \* the call stack of parse and loadDir activations
  err,       \* the error being returned up the call stack, or Nil
  result,    \* what Load / Parse returned: [config, err]
  assignLog, \* history: the assignments stored, in order
  headerLog, \* history: the section names of the headers processed
  requestLog,\* history: the loadFile calls made from directives
  scanned,   \* history: number of lines taken from the scanners
  fsOps,     \* history: number of os.Open / os.Stat / os.ReadDir calls
  cycleSeen, \* history: a file was requested while being parsed
  entry,     \* history: the path given to Load (empty for Parse)
  other,     \* the state of a second, independent Load / Parse call
  handles,   \* the files os.Open has opened and Close has not yet closed
  parseLog,  \* history: the files whose parse loadFile has started
  applied    \* the function applied to an input: [fn, in, out]

vars == << fs, pc, call, config, section, visited, stack, err, result,
           assignLog, headerLog, requestLog, scanned, fsOps, cycleSeen,
           entry, other, handles, parseLog, applied >>

\* ------------------------------------------------------------------------
\* Operating system calls
\* ------------------------------------------------------------------------

\* The (empty) path standing for a failed lookup.
NoEnt == << >>

Child(dir, elem) ==
  IF dir = Root THEN Root \o elem ELSE dir \o << "/" >> \o elem

\* Path lookup as the kernel does it: element by element from the directory
\* cur, following symbolic links; every element but the last must lead to a
\* directory.
RECURSIVE Walk(_, _)
Walk(cur, elems) ==
  IF elems = << >> THEN cur
  ELSE LET e == Head(elems) IN
    IF e = << "." >> THEN Walk(cur, Tail(elems))
    ELSE IF e = << ".", "." >> THEN Walk(Dir(cur), Tail(elems))
    ELSE LET p == Child(cur, e) IN
      IF p \notin DOMAIN fs THEN NoEnt
      ELSE LET t == IF fs[p].kind = "symlink" THEN fs[p].target ELSE p IN
        IF t \notin DOMAIN fs THEN NoEnt
        ELSE IF Tail(elems) = << >> THEN t
        ELSE IF fs[t].kind = "dir" THEN Walk(t, Tail(elems))
        ELSE NoEnt

Lookup(path) == Walk(Root, Elements(path))

\* os.Stat(path) returns no error
StatOk(path) == Lookup(path) # NoEnt

\* os.Open(path): opening a directory succeeds, reading from it fails.
Open(path) ==
  LET r == Lookup(path) IN
  IF r = NoEnt THEN [ok |-> FALSE, isDir |-> FALSE, lines |-> << >>]
  ELSE [ok |-> TRUE, isDir |-> fs[r].kind = "dir", lines |-> fs[r].lines]

\* os.ReadDir(dir): the directory entries, each with Name() and IsDir().
\* IsDir() of a symbolic link is false whatever the link points to.
ReadDir(dir) ==
  LET r == Lookup(dir) IN
  IF r = NoEnt \/ fs[r].kind # "dir" THEN [ok |-> FALSE, entries |-> {}]
  ELSE [ok |-> TRUE,
        entries |-> { [name |-> Base(p), isDir |-> fs[p].kind = "dir"] :
                      p \in { q \in DOMAIN fs : q # Root /\ Dir(q) = r } }]

\* ------------------------------------------------------------------------
\* Config, Section, Param
\* ------------------------------------------------------------------------

\* make(map[string]*Param)
NoParams == << >>

\* Config.Section(name): the Section stored under name, or the nil pointer
Section(cfg, name) ==
  IF name \in DOMAIN cfg.sections
    THEN [nil |-> FALSE, name |-> cfg.names[name],
          params |-> cfg.sections[name]]
    ELSE [nil |-> TRUE, name |-> << >>, params |-> NoParams]

HasSection(cfg, name) == name \in DOMAIN cfg.sections

\* SectionNames without the test that leaves the default section out.
SectionNames_WithDefault(cfg) == SortStrings(DOMAIN cfg.sections)

SectionNames(cfg) == SortStrings({ n \in DOMAIN cfg.sections : n # << >> })

HasParam(params, name) == ToLower(name) \in DOMAIN params

GetParam(params, name) ==
  IF ToLower(name) \in DOMAIN params
    THEN params[ToLower(name)]
    ELSE [name |-> name, value |-> << >>]

AllParams(params) == SortStrings(DOMAIN params)

\* The nil *Config that Load and Parse return with an error.
NilConfig == [nil |-> TRUE]

\* The Config and active section that newParser builds.  sections holds
\* the params of the Section stored under each key and names its name field.
NewConfig ==
  [sections |-> (<< >> :> NoParams), names |-> (<< >> :> << >>),
   defaultSection |-> << >>]

\* EnterSection storing a fresh Section whether or not one exists.
EnterSection_Replace(cfg, name) ==
  [cfg EXCEPT !.sections = (name :> NoParams) @@ @,
              !.names = (name :> name) @@ @]

\* parse, lines 201-207: look the section up, create it if it is absent.
EnterSection(cfg, name) ==
  IF name \in DOMAIN cfg.sections
    THEN cfg
    ELSE [cfg EXCEPT !.sections = (name :> NoParams) @@ @,
                     !.names = (name :> name) @@ @]

\* SetParam storing the Param under its name as written.
SetParam_KeyAsWritten(params, key, value) ==
  (key :> [name |-> key, value |-> value]) @@ params

\* SetParam keeping the Param already stored (first value wins).
SetParam_KeepFirst(params, key, value) ==
  params @@ (ToLower(key) :> [name |-> key, value |-> value])

\* SetParam storing the Param in a fresh map of its own.
SetParam_FreshMap(params, key, value) ==
  (ToLower(key) :> [name |-> key, value |-> value])


\* parse, lines 225-226: store the Param under the lower-cased name.
SetParam(params, key, value) ==
  (ToLower(key) :> [name |-> key, value |-> value]) @@ params

\* ------------------------------------------------------------------------
\* Call stack
\* ------------------------------------------------------------------------

\* An activation of parse(r, baseDir) reading the lines of the file opened
\* as path (the empty path for the reader given to Parse).
ParseFrame(path, baseDir, opened) ==
  [fn |-> "parse", path |-> path, baseDir |-> baseDir,
   lines |-> opened.lines, idx |-> 0, isDir |-> opened.isDir,
   files |-> << >>, loaded |-> << >>, logStart |-> 0]

\* An activation of loadDir(dir) about to iterate over files; loaded and
\* logStart are history: the names passed to loadFile so far and the length
\* of assignLog when the activation began.
LoadDirFrame(dir, files, logLen) ==
  [fn |-> "loadDir", path |-> dir, baseDir |-> << >>,
   lines |-> << >>, idx |-> 0, isDir |-> FALSE,
   files |-> files, loaded |-> << >>, logStart |-> logLen]

Top == stack[Len(stack)]

Pop(stk) == Upto(stk, Len(stk) - 1)

\* The scanner, or the loop over files, moves on by one.
Advance(stk) == [stk EXCEPT ![Len(stk)].idx = @ + 1]

\* The line as parse sees it after stripComment and TrimSpace.
CurLine == TrimSpace(stripComment(Top.lines[Top.idx + 1]))

Running == pc = "running" /\ err = Nil /\ stack # << >>

AtLine == Running /\ Top.fn = "parse" /\ Top.idx < Len(Top.lines)

\* ------------------------------------------------------------------------
\* Initial state: a file system and a freshly constructed parser
\* ------------------------------------------------------------------------

\* newParser, lines 45-81: the state a call of Load or Parse starts from,
\* a parser with a Config, an active section and a visited set of its own.
NewParser ==
  [pc |-> "init", call |-> "none", entry |-> << >>, config |-> NewConfig,
   section |-> << >>, visited |-> {}, stack |-> << >>, err |-> Nil,
   result |-> [config |-> NilConfig, err |-> Nil], assignLog |-> << >>,
   headerLog |-> {}, requestLog |-> << >>, scanned |-> 0, fsOps |-> 0,
   cycleSeen |-> FALSE, handles |-> << >>, parseLog |-> << >>]

\* No function has been applied.
NotApplied == [fn |-> "none", in |-> << >>, out |-> << >>, done |-> FALSE]

Init ==
  /\ fs \in { FileSystem(top) : top \in SeqsUpTo(LinePool, MaxLines) }
  /\ pc = "init"
  /\ call = "none"
  /\ config = NewConfig
  /\ section = << >>
  /\ visited = {}
  /\ stack = << >>
  /\ err = Nil
  /\ result = [config |-> NilConfig, err |-> Nil]
  /\ assignLog = << >>
  /\ headerLog = {}
  /\ requestLog = << >>
  /\ scanned = 0
  /\ fsOps = 0
  /\ cycleSeen = FALSE
  /\ entry = << >>
  /\ other = NewParser
  /\ handles = << >>
  /\ parseLog = << >>
  /\ applied = NotApplied

\* ------------------------------------------------------------------------
\* parser methods
\* ------------------------------------------------------------------------

\* The file absPath names is, lexically, one that an activation in stk is
\* parsing (history only).
BeingParsed(absPath, stk) ==
  /\ Lookup(absPath) # NoEnt
  /\ \E i \in 1..Len(stk) :
       /\ stk[i].fn = "parse"
       /\ stk[i].path # << >>
       /\ Clean(stk[i].path) = Clean(absPath)

\* The outcome of a call made from the activation on top of stk: the
\* visited set, the error returned at once (or Nil), the call stack with the
\* activation the call starts, and as history the number of operating
\* system calls made and whether the file requested is being parsed.
Outcome(v, e, stk, ops, cyc) ==
  [visited |-> v, err |-> e, stack |-> stk, ops |-> ops, cyc |-> cyc,
   opened |-> << >>]

\* The outcome o of a call in which os.Open has opened absPath.
Opened(o, absPath) == [o EXCEPT !.opened = << absPath >>]

\* loadFile without the check of the visited set.
loadFile_NoVisitedCheck(absPath, stk) ==
  LET file == Open(absPath)
      v    == visited \cup { absPath }
  IN  IF ~file.ok
        THEN Outcome(v, ErrOpen, stk, 1, BeingParsed(absPath, stk))
        ELSE Opened(Outcome(v, Nil,
                            Append(stk, ParseFrame(absPath, Dir(absPath), file)),
                            1, BeingParsed(absPath, stk)), absPath)

\* loadFile refusing only a file that is being parsed, as if a path left
\* the visited set when the parse of its file completes.
loadFile_VisitedWhileParsed(absPath, stk) ==
  IF \E i \in 1..Len(stk) : stk[i].fn = "parse" /\ stk[i].path = absPath
    THEN Outcome(visited, ErrCircular, stk, 0, BeingParsed(absPath, stk))
    ELSE LET file == Open(absPath)
             v    == visited \cup { absPath }
         IN  IF ~file.ok
               THEN Outcome(v, ErrOpen, stk, 1, BeingParsed(absPath, stk))
               ELSE Opened(Outcome(v, Nil,
                                   Append(stk, ParseFrame(absPath, Dir(absPath),
                                                          file)),
                                   1, BeingParsed(absPath, stk)), absPath)


\* loadFile testing the visited set without ever adding a path to it.
loadFile_NeverMarks(absPath, stk) ==
  IF absPath \in visited
    THEN Outcome(visited, ErrCircular, stk, 0, BeingParsed(absPath, stk))
    ELSE LET file == Open(absPath)
         IN  IF ~file.ok
               THEN Outcome(visited, ErrOpen, stk, 1,
                            BeingParsed(absPath, stk))
               ELSE Opened(Outcome(visited, Nil,
                                   Append(stk, ParseFrame(absPath, Dir(absPath),
                                                          file)),
                                   1, BeingParsed(absPath, stk)), absPath)


\* loadFile(absPath) up to its call of parse.
loadFile(absPath, stk) ==
  IF absPath \in visited
    THEN Outcome(visited, ErrCircular, stk, 0, BeingParsed(absPath, stk))
    ELSE LET file == Open(absPath)
             v    == visited \cup { absPath }
         IN  IF ~file.ok
               THEN Outcome(v, ErrOpen, stk, 1, BeingParsed(absPath, stk))
               ELSE Opened(Outcome(v, Nil,
                                   Append(stk, ParseFrame(absPath, Dir(absPath),
                                                          file)),
                                   1, BeingParsed(absPath, stk)), absPath)

\* file.Close(): the handle most recently opened for path is closed.
Close(h, path) ==
  LET at == { i \in 1..Len(h) : h[i] = path } IN
  IF at = {} THEN h
  ELSE LET k == CHOOSE i \in at : \A j \in at : j <= i
       IN  SubSeq(h, 1, k - 1) \o SubSeq(h, k + 1, Len(h))

\* The Close placed after the call of parse and after a test of its error.
deferredClose_AfterErrorCheck(h, frame, e) ==
  IF frame.fn = "parse" /\ frame.path # << >> /\ e = Nil
    THEN Close(h, frame.path)
    ELSE h

\* loadFile, line 173: "defer file.Close()" runs when the activation frame
\* of parse that loadFile started returns, with the error e or with none.
\* The reader given to Parse is the caller's and loadDir holds no file.
deferredClose(h, frame, e) ==
  IF frame.fn = "parse" /\ frame.path # << >>
    THEN Close(h, frame.path)
    ELSE h

\* The parser state and the history after a call with outcome o.
Call(o) ==
  /\ visited' = o.visited
  /\ err' = o.err
  /\ stack' = o.stack
  /\ fsOps' = fsOps + o.ops
  /\ cycleSeen' = (cycleSeen \/ o.cyc)
  /\ handles' = handles \o o.opened
  /\ parseLog' = parseLog \o o.opened

\* filepath.Abs(path), the working directory being Cwd.
Abs(path) == IF IsAbs(path) THEN Clean(path) ELSE Join(Cwd, path)

\* Load(path) up to the call of loadFile.
LoadPath(path) ==
  /\ pc = "init"
  /\ Call(loadFile(Abs(path), << >>))
  /\ entry' = path
  /\ pc' = "running"
  /\ call' = "Load"
  /\ UNCHANGED << applied, other, fs, config, section, result, assignLog,
                  headerLog, requestLog, scanned >>

\* A call of Load with one of the paths of LoadArgs.
Load == \E path \in LoadArgs : LoadPath(path)

\* Parse(r) up to the call of parse(r, ""): r delivers the generated lines.
Parse ==
  /\ pc = "init"
  /\ pc' = "running"
  /\ call' = "Parse"
  /\ stack' = << ParseFrame(<< >>, << >>,
                            [ok |-> TRUE, isDir |-> FALSE, lines |-> fs[PathA].lines]) >>
  /\ UNCHANGED << parseLog, handles, applied, other, entry, fs, config,
                  section, visited, err, result, assignLog, headerLog,
                  requestLog, scanned, fsOps, cycleSeen >>

\* parse, lines 191-193: a line that is empty after stripComment and
\* TrimSpace is skipped.
SkipLine ==
  /\ AtLine
  /\ CurLine = << >>
  /\ stack' = Advance(stack)
  /\ scanned' = scanned + 1
  /\ UNCHANGED << parseLog, handles, applied, other, entry, fs, pc, call,
                  config, section, visited, err, result, assignLog, headerLog,
                  requestLog, fsOps, cycleSeen >>

\* parse, lines 196-209: a section header.
SectionHeader ==
  /\ AtLine
  /\ HasPrefix(CurLine, << "[" >>)
  /\ LET h == parseSectionHeader(CurLine) IN
     IF h.err # Nil
       THEN /\ err' = h.err
            /\ UNCHANGED << config, section, headerLog >>
       ELSE /\ config' = EnterSection(config, h.name)
            /\ section' = h.name
            /\ headerLog' = headerLog \cup { h.name }
            /\ err' = Nil
  /\ stack' = Advance(stack)
  /\ scanned' = scanned + 1
  /\ UNCHANGED << parseLog, handles, applied, other, entry, fs, pc, call,
                  visited, result, assignLog, requestLog, fsOps, cycleSeen >>

\* The line is handed to handleInclude and matches a directive.
AtDirective ==
  /\ AtLine
  /\ CurLine # << >>
  /\ ~HasPrefix(CurLine, << "[" >>)
  /\ DirectiveOf(CurLine).matched

\* includeCheck with the path parsed before the base directory is tested.
includeCheck_PathFirst(rest, baseDir) ==
  IF parseIncludePath(rest).err # Nil THEN parseIncludePath(rest)
  ELSE IF baseDir = << >> THEN [path |-> << >>, err |-> ErrNoBaseDir]
  ELSE parseIncludePath(rest)

\* handleInclude, lines 247-254: the checks made before a path is resolved.
includeCheck(rest, baseDir) ==
  IF baseDir = << >> THEN [path |-> << >>, err |-> ErrNoBaseDir]
  ELSE parseIncludePath(rest)

\* resolvePath joining a relative path to the working directory.
resolvePath_FromCwd(path, baseDir) ==
  IF IsAbs(path) THEN path ELSE Join(Cwd, path)

resolvePath(path, baseDir) ==
  IF IsAbs(path) THEN path ELSE Join(baseDir, path)

Request(directive, arg, resolved) ==
  [directive |-> directive, from |-> Top.path, arg |-> arg, resolved |-> resolved]

\* handleInclude returns an error before resolving a path.
IncludeRejected ==
  /\ AtDirective
  /\ LET m == DirectiveOf(CurLine)
         c == includeCheck(m.rest, Top.baseDir)
     IN  /\ c.err # Nil
         /\ err' = c.err
  /\ stack' = Advance(stack)
  /\ scanned' = scanned + 1
  /\ UNCHANGED << parseLog, handles, applied, other, entry, fs, pc, call,
                  config, section, visited, result, assignLog, headerLog,
                  requestLog, fsOps, cycleSeen >>

\* handleInclude, case "include".
Include ==
  /\ AtDirective
  /\ LET m == DirectiveOf(CurLine)
         c == includeCheck(m.rest, Top.baseDir)
         resolved == resolvePath(c.path, Top.baseDir)
     IN  /\ m.directive = KwInclude
         /\ c.err = Nil
         /\ requestLog' = Append(requestLog, Request(m.directive, c.path, resolved))
         /\ Call(loadFile(resolved, Advance(stack)))
  /\ scanned' = scanned + 1
  /\ UNCHANGED << applied, other, entry, fs, pc, call, config, section,
                  result, assignLog, headerLog >>

\* includeIfExists without the os.Stat test.
includeIfExists_NoStat(resolved, stk) ==
  [loadFile(resolved, stk) EXCEPT !.ops = @ + 1]

\* handleInclude, case "include_if_exists", once the path is resolved.
includeIfExists(resolved, stk) ==
  IF StatOk(resolved)
    THEN [loadFile(resolved, stk) EXCEPT !.ops = @ + 1]
    ELSE Outcome(visited, Nil, stk, 1, FALSE)

IncludeIfExists ==
  /\ AtDirective
  /\ LET m == DirectiveOf(CurLine)
         c == includeCheck(m.rest, Top.baseDir)
         resolved == resolvePath(c.path, Top.baseDir)
     IN  /\ m.directive = KwIncludeIfExists
         /\ c.err = Nil
         /\ requestLog' = Append(requestLog, Request(m.directive, c.path, resolved))
         /\ Call(includeIfExists(resolved, Advance(stack)))
  /\ scanned' = scanned + 1
  /\ UNCHANGED << applied, other, entry, fs, pc, call, config, section,
                  result, assignLog, headerLog >>

\* confFiles without the exclusion of dotfiles.
confFiles_WithDotfiles(entries) ==
  SortStrings({ e.name : e \in { x \in entries :
      ~(x.isDir \/ ~HasSuffix(x.name, << ".", "c", "o", "n", "f" >>)) } })

\* loadDir, lines 281-290: the names to load, in the order of loading.
confFiles(entries) ==
  SortStrings({ e.name : e \in { x \in entries :
      ~(x.isDir \/ HasPrefix(x.name, << "." >>)
                \/ ~HasSuffix(x.name, << ".", "c", "o", "n", "f" >>)) } })

\* loadDir(dir) up to its loop over the files.
loadDir(dir, stk) ==
  LET d == ReadDir(dir) IN
  IF ~d.ok
    THEN Outcome(visited, ErrReadDir, stk, 1, FALSE)
    ELSE Outcome(visited, Nil,
                 Append(stk, LoadDirFrame(dir, confFiles(d.entries), Len(assignLog))),
                 1, FALSE)

\* handleInclude, case "include_dir".
IncludeDir ==
  /\ AtDirective
  /\ LET m == DirectiveOf(CurLine)
         c == includeCheck(m.rest, Top.baseDir)
         resolved == resolvePath(c.path, Top.baseDir)
     IN  /\ m.directive = KwIncludeDir
         /\ c.err = Nil
         /\ requestLog' = Append(requestLog, Request(m.directive, c.path, resolved))
         /\ Call(loadDir(resolved, Advance(stack)))
  /\ scanned' = scanned + 1
  /\ UNCHANGED << applied, other, entry, fs, pc, call, config, section,
                  result, assignLog, headerLog >>

\* loadDir, lines 292-296: one iteration of the loop over the files.
LoadDirNext ==
  /\ Running
  /\ Top.fn = "loadDir"
  /\ Top.idx < Len(Top.files)
  /\ LET name == Top.files[Top.idx + 1] IN
     Call(loadFile(Join(Top.path, name),
                   [Advance(stack) EXCEPT ![Len(stack)].loaded = Append(@, name)]))
  /\ UNCHANGED << applied, other, entry, fs, pc, call, config, section,
                  result, assignLog, headerLog, requestLog, scanned >>

\* parse, lines 219-226: a parameter line.
KeyValue ==
  /\ AtLine
  /\ CurLine # << >>
  /\ ~HasPrefix(CurLine, << "[" >>)
  /\ ~DirectiveOf(CurLine).matched
  /\ LET kv == parseKeyValue(CurLine) IN
     IF kv.err # Nil
       THEN /\ err' = kv.err
            /\ UNCHANGED << config, assignLog >>
       ELSE /\ config' = [config EXCEPT !.sections[section] =
                                          SetParam(@, kv.name, kv.value)]
            /\ assignLog' = Append(assignLog,
                 [sec |-> section, name |-> kv.name, value |-> kv.value,
                  file |-> Top.path])
            /\ err' = Nil
  /\ stack' = Advance(stack)
  /\ scanned' = scanned + 1
  /\ UNCHANGED << parseLog, handles, applied, other, entry, fs, pc, call,
                  section, visited, result, headerLog, requestLog, fsOps,
                  cycleSeen >>

\* EndOfFile with the active section reset to the default section when an
\* included file is finished.
EndOfFile_ResetsSection ==
  /\ Running
  /\ Top.fn = "parse"
  /\ Top.idx = Len(Top.lines)
  /\ stack' = Pop(stack)
  /\ err' = IF Top.isDir THEN ErrRead ELSE Nil
  /\ handles' = deferredClose(handles, Top, err')
  /\ section' = << >>
  /\ UNCHANGED << parseLog, applied, other, entry, fs, pc, call, config,
                  visited, result, assignLog, headerLog, requestLog, scanned,
                  fsOps, cycleSeen >>

\* parse, line 229, and the deferred file.Close of loadFile: the scanner is
\* exhausted; reading from a directory is the scanner's error.
EndOfFile ==
  /\ Running
  /\ Top.fn = "parse"
  /\ Top.idx = Len(Top.lines)
  /\ stack' = Pop(stack)
  /\ err' = IF Top.isDir THEN ErrRead ELSE Nil
  /\ handles' = deferredClose(handles, Top, err')
  /\ UNCHANGED << parseLog, applied, other, entry, fs, pc, call, config,
                  section, visited, result, assignLog, headerLog, requestLog,
                  scanned, fsOps, cycleSeen >>

\* loadDir, line 297: every file is loaded.
EndOfDir ==
  /\ Running
  /\ Top.fn = "loadDir"
  /\ Top.idx = Len(Top.files)
  /\ stack' = Pop(stack)
  /\ UNCHANGED << parseLog, handles, applied, other, entry, fs, pc, call,
                  config, section, visited, err, result, assignLog, headerLog,
                  requestLog, scanned, fsOps, cycleSeen >>

\* "return err" in parse, handleInclude, loadDir and loadFile: the error
\* leaves one activation.
ReturnError ==
  /\ pc = "running"
  /\ err # Nil
  /\ stack # << >>
  /\ stack' = Pop(stack)
  /\ handles' = deferredClose(handles, Top, err)
  /\ UNCHANGED << parseLog, applied, other, entry, fs, pc, call, config,
                  section, visited, err, result, assignLog, headerLog,
                  requestLog, scanned, fsOps, cycleSeen >>

\* Return handing the Config built so far to the caller with the error.
Return_PartialConfig ==
  /\ pc = "running"
  /\ stack = << >>
  /\ pc' = "done"
  /\ result' = [config |-> config, err |-> err]
  /\ UNCHANGED << parseLog, handles, applied, other, entry, fs, call, config,
                  section, visited, stack, err, assignLog, headerLog,
                  requestLog, scanned, fsOps, cycleSeen >>

\* Load, lines 51-54, and Parse, lines 62-65: what the caller receives.
Return ==
  /\ pc = "running"
  /\ stack = << >>
  /\ pc' = "done"
  /\ result' = IF err # Nil THEN [config |-> NilConfig, err |-> err]
                            ELSE [config |-> config, err |-> Nil]
  /\ UNCHANGED << parseLog, handles, applied, other, entry, fs, call, config,
                  section, visited, stack, err, assignLog, headerLog,
                  requestLog, scanned, fsOps, cycleSeen >>

\* The names a caller asks GetParam for: stored names in either case and
\* names no file assigns.
QueryNames == { << "k" >>, << "K" >>, << "k", "2" >>, << "z" >> }

\* GetParam storing the Param it builds for an absent name.
GetParamMap_Inserts(params, name) ==
  IF ToLower(name) \in DOMAIN params
    THEN params
    ELSE (ToLower(name) :> [name |-> name, value |-> << >>]) @@ params

\* GetParam, lines 113-120: the params map of the section after the call;
\* the method reads the map and assigns nothing to it.
GetParamMap(params, name) == params

\* A caller holding the Config that Load or Parse returned calls
\* cfg.Section(s).GetParam(name); the Config is the one the parser built, so
\* a store through the Section would show in both.
GetParamCall ==
  /\ pc = "done"
  /\ result.err = Nil
  /\ \E s \in DOMAIN result.config.sections, name \in QueryNames :
       LET sec == Section(result.config, s)
           after == GetParamMap(sec.params, name)
       IN  /\ applied' = [fn |-> "GetParam", in |-> << s, name >>,
                          out |-> GetParam(sec.params, name), done |-> TRUE]
           /\ result' = [result EXCEPT !.config.sections[s] = after]
           /\ config' = [config EXCEPT !.sections[s] = after]
  /\ UNCHANGED << parseLog, handles, other, entry, fs, pc, call, section,
                  visited, stack, err, assignLog, headerLog, requestLog,
                  scanned, fsOps, cycleSeen >>


Next ==
  \/ Load
  \/ Parse
  \/ SkipLine
  \/ SectionHeader
  \/ IncludeRejected
  \/ Include
  \/ IncludeIfExists
  \/ IncludeDir
  \/ LoadDirNext
  \/ KeyValue
  \/ EndOfFile
  \/ EndOfDir
  \/ ReturnError
  \/ Return
  \/ GetParamCall

Spec == Init /\ [][Next]_vars


\* The steps of a Load or Parse call that has been made: the program is
\* sequential and the call runs on until it returns.
ParserStep ==
  \/ SkipLine
  \/ SectionHeader
  \/ IncludeRejected
  \/ Include
  \/ IncludeIfExists
  \/ IncludeDir
  \/ LoadDirNext
  \/ KeyValue
  \/ EndOfFile
  \/ EndOfDir
  \/ ReturnError
  \/ Return

\* A call that has been made is not suspended for ever: weak fairness of
\* ParserStep.  A step of ParserStep is possible exactly in the states with
\* pc = "running", so that WF_vars(ParserStep) is written with this state
\* predicate in the place of ENABLED <<ParserStep>>_vars.
ParserRuns ==
  []<>(pc # "running") \/ []<><<ParserStep>>_vars

SpecFair == Init /\ [][Next]_vars /\ ParserRuns


\* ------------------------------------------------------------------------
\* Typed access: parseBool
\* ------------------------------------------------------------------------

ErrEmptyBool == "empty boolean value"
ErrAmbiguousBool == "ambiguous boolean value"
ErrInvalidBool == "invalid boolean value"

trueWords == << << "o", "n" >>, << "t", "r", "u", "e" >>, << "y", "e", "s" >> >>
falseWords == << << "o", "f", "f" >>, << "f", "a", "l", "s", "e" >>, << "n", "o" >> >>

\* parseBool answering true as soon as a true word matches.
parseBool_TrueFirst(s0) ==
  LET s == ToLower(TrimSpace(s0))
      matchesTrue == \E i \in DOMAIN trueWords : HasPrefix(trueWords[i], s)
      matchesFalse == \E i \in DOMAIN falseWords : HasPrefix(falseWords[i], s)
  IN  IF s = << >> THEN [value |-> FALSE, err |-> ErrEmptyBool]
      ELSE IF s = << "1" >> THEN [value |-> TRUE, err |-> Nil]
      ELSE IF s = << "0" >> THEN [value |-> FALSE, err |-> Nil]
      ELSE IF matchesTrue THEN [value |-> TRUE, err |-> Nil]
      ELSE IF matchesFalse THEN [value |-> FALSE, err |-> Nil]
      ELSE [value |-> FALSE, err |-> ErrInvalidBool]

\* parseBool, lines 478-514.
parseBool(s0) ==
  LET s == ToLower(TrimSpace(s0))
      matchesTrue == \E i \in DOMAIN trueWords : HasPrefix(trueWords[i], s)
      matchesFalse == \E i \in DOMAIN falseWords : HasPrefix(falseWords[i], s)
  IN  IF s = << >> THEN [value |-> FALSE, err |-> ErrEmptyBool]
      ELSE IF s = << "1" >> THEN [value |-> TRUE, err |-> Nil]
      ELSE IF s = << "0" >> THEN [value |-> FALSE, err |-> Nil]
      ELSE IF matchesTrue /\ ~matchesFalse THEN [value |-> TRUE, err |-> Nil]
      ELSE IF matchesFalse /\ ~matchesTrue THEN [value |-> FALSE, err |-> Nil]
      ELSE IF matchesTrue /\ matchesFalse
        THEN [value |-> FALSE, err |-> ErrAmbiguousBool]
      ELSE [value |-> FALSE, err |-> ErrInvalidBool]


\* ------------------------------------------------------------------------
\* Typed access: parseInt
\* ------------------------------------------------------------------------

\* Magnitudes are held in decimal, least significant digit first and
\* without leading zeros (zero is the empty sequence), so that the limits
\* of uint64, int64 and float64 are compared exactly.  An int64 is
\* [neg, mag].

HexDigits ==
  << "0", "1", "2", "3", "4", "5", "6", "7", "8", "9",
     "a", "b", "c", "d", "e", "f" >>

\* The value of a digit byte as strconv.ParseUint reads it; 99 for a byte
\* that is no digit.
DigitVal(ch) ==
  IF \E i \in 1..16 : HexDigits[i] = ToLowerByte(ch)
    THEN (CHOOSE i \in 1..16 : HexDigits[i] = ToLowerByte(ch)) - 1
    ELSE 99

\* The magnitude of a natural number.
RECURSIVE Big(_)
Big(c) == IF c = 0 THEN << >> ELSE << c % 10 >> \o Big(c \div 10)

RECURSIVE MulAddFrom(_, _, _, _)
MulAddFrom(n, b, carry, i) ==
  IF i > Len(n) THEN Big(carry)
  ELSE LET t == n[i] * b + carry IN
       << t % 10 >> \o MulAddFrom(n, b, t \div 10, i + 1)

\* n*b + d, the step of the loop of strconv.ParseUint.
MulAdd(n, b, d) == MulAddFrom(n, b, d, 1)

\* a < b
BigLess(a, b) ==
  \/ Len(a) < Len(b)
  \/ /\ Len(a) = Len(b)
     /\ \E i \in 1..Len(a) :
          /\ a[i] < b[i]
          /\ \A j \in (i + 1)..Len(a) : a[j] = b[j]

\* The magnitude a string of decimal digits denotes, most significant
\* digit first.
RECURSIVE BigOfDigitsFrom(_, _, _, _)
BigOfDigitsFrom(s, base, i, n) ==
  IF i > Len(s) THEN n
  ELSE BigOfDigitsFrom(s, base, i + 1, MulAdd(n, base, DigitVal(s[i])))

BigOfDigits(s, base) == BigOfDigitsFrom(s, base, 1, << >>)

\* 2^63 and 2^64
Pow2To63 ==
  BigOfDigits(<< "9", "2", "2", "3", "3", "7", "2", "0", "3", "6", "8", "5",
                 "4", "7", "7", "5", "8", "0", "8" >>, 10)

Pow2To64 ==
  BigOfDigits(<< "1", "8", "4", "4", "6", "7", "4", "4", "0", "7", "3", "7",
                 "0", "9", "5", "5", "1", "6", "1", "6" >>, 10)

Int64(neg, mag) == [neg |-> neg /\ mag # << >>, mag |-> mag]

\* math.MinInt64, math.MaxInt64 and 0
MinInt64 == Int64(TRUE, Pow2To63)

MaxInt64 ==
  Int64(FALSE,
        BigOfDigits(<< "9", "2", "2", "3", "3", "7", "2", "0", "3", "6", "8",
                       "5", "4", "7", "7", "5", "8", "0", "7" >>, 10))

ZeroInt64 == Int64(FALSE, << >>)

\* strconv.ParseUint(s, 0, 64) for s without underscores: the base is taken
\* from the prefix (0b, 0o, 0x need a digit after them, a bare leading 0 is
\* octal), every byte must be a digit of the base, and the value must be
\* below 2^64.
ParseUint(s) ==
  LET prefixed(c) == Len(s) >= 3 /\ ToLowerByte(s[2]) = c
      base == IF s = << >> \/ s[1] # "0" THEN 10
              ELSE IF prefixed("b") THEN 2
              ELSE IF prefixed("o") THEN 8
              ELSE IF prefixed("x") THEN 16
              ELSE 8
      digits == IF s = << >> \/ s[1] # "0" THEN s
                ELSE IF prefixed("b") \/ prefixed("o") \/ prefixed("x")
                  THEN From(s, 2)
                ELSE From(s, 1)
      val == BigOfDigits(digits, base)
  IN  IF s = << >> THEN [ok |-> FALSE, val |-> << >>]
      ELSE IF \E i \in 1..Len(digits) : DigitVal(digits[i]) >= base
        THEN [ok |-> FALSE, val |-> << >>]
      ELSE IF ~BigLess(val, Pow2To64) THEN [ok |-> FALSE, val |-> << >>]
      ELSE [ok |-> TRUE, val |-> val]

\* strconv.ParseInt(s, 0, 64): an optional sign, then ParseUint, then the
\* range of int64.
ParseInt(s) ==
  LET signed == s # << >> /\ s[1] \in { "+", "-" }
      neg == s # << >> /\ s[1] = "-"
      un == ParseUint(IF signed THEN From(s, 1) ELSE s)
  IN  IF s = << >> \/ ~un.ok THEN [ok |-> FALSE, val |-> ZeroInt64]
      ELSE IF ~neg /\ ~BigLess(un.val, Pow2To63)
        THEN [ok |-> FALSE, val |-> ZeroInt64]
      ELSE IF neg /\ BigLess(Pow2To63, un.val)
        THEN [ok |-> FALSE, val |-> ZeroInt64]
      ELSE [ok |-> TRUE, val |-> Int64(neg, un.val)]

\* The end of the mantissa that strconv's readFloat scans from the 0-based
\* index i: digits and at most one point.
RECURSIVE MantissaEnd(_, _, _)
MantissaEnd(s, i, sawdot) ==
  IF i >= Len(s) THEN i
  ELSE IF isDigit(s[i + 1]) THEN MantissaEnd(s, i + 1, sawdot)
  ELSE IF s[i + 1] = "." /\ ~sawdot THEN MantissaEnd(s, i + 1, TRUE)
  ELSE i

\* The number a string of decimal digits denotes, as an integer of the
\* model; readFloat stops accumulating an exponent at 10000.
RECURSIVE SmallOfDigits(_)
SmallOfDigits(s) ==
  IF s = << >> THEN 0
  ELSE 10 * SmallOfDigits(Upto(s, Len(s) - 1)) + DigitVal(s[Len(s)])

\* 2^1024 - 2^970, the least magnitude strconv rounds to infinity, cut to
\* its first 21 of 309 digits.
Float64Limit ==
  BigOfDigits(<< "1", "7", "9", "7", "6", "9", "3", "1", "3", "4", "8", "6",
                 "2", "3", "1", "5", "8", "0", "7", "9", "3" >>, 10)

\* The first 21 digits of mant * 10^k when that number has 309 digits.
Leading21(mant) ==
  IF Len(mant) >= 21 THEN SubSeq(mant, Len(mant) - 20, Len(mant))
  ELSE [i \in 1..21 |-> IF i <= 21 - Len(mant) THEN 0
                        ELSE mant[i - (21 - Len(mant))]]

\* strconv.ParseFloat(s, 64) for s without underscores and without the
\* exponent letter p: [ok, kind, neg, mant, exp], the value of a finite
\* result being mant * 10^exp.  A hexadecimal mantissa needs a p exponent,
\* so every string with the prefix 0x is a syntax error here.
ParseFloat(s) ==
  LET signed == s # << >> /\ s[1] \in { "+", "-" }
      neg == s # << >> /\ s[1] = "-"
      body == IF signed THEN From(s, 1) ELSE s
      low == ToLower(body)
      Inf == << "i", "n", "f" >>
      Infinity == Inf \o << "i", "n", "i", "t", "y" >>
      fail == [ok |-> FALSE, kind |-> "none", neg |-> FALSE, mant |-> << >>,
               exp |-> 0]
      hex == Len(body) > 2 /\ body[1] = "0" /\ low[2] = "x"
      mEnd == MantissaEnd(body, 0, FALSE)
      mantStr == Upto(body, mEnd)
      dot == IndexByte(mantStr, ".")
      allDigits == SelectSeq(mantStr, isDigit)
      fracLen == IF dot < 0 THEN 0 ELSE Len(mantStr) - dot - 1
      hasExp == mEnd < Len(body) /\ low[mEnd + 1] = "e"
      afterE == From(body, mEnd + 1)
      expSigned == afterE # << >> /\ afterE[1] \in { "+", "-" }
      expDigits == IF expSigned THEN From(afterE, 1) ELSE afterE
      expNeg == afterE # << >> /\ afterE[1] = "-"
      expOk == /\ expDigits # << >>
               /\ \A i \in 1..Len(expDigits) : isDigit(expDigits[i])
      expAbs == IF Len(expDigits) > 5 THEN 10000
                ELSE LET e == SmallOfDigits(expDigits) IN
                     IF e > 10000 THEN 10000 ELSE e
      e10 == IF hasExp THEN (IF expNeg THEN 0 - expAbs ELSE expAbs) ELSE 0
      mant == BigOfDigits(allDigits, 10)
      exp == e10 - fracLen
      size == Len(mant) + exp
      overflow == /\ mant # << >>
                  /\ \/ size > 309
                     \/ /\ size = 309
                        /\ ~BigLess(Leading21(mant), Float64Limit)
  IN  IF s = << >> THEN fail
      ELSE IF low = Inf \/ low = Infinity
        THEN [ok |-> TRUE, kind |-> "inf", neg |-> neg, mant |-> << >>,
              exp |-> 0]
      ELSE IF ~signed /\ low = << "n", "a", "n" >>
        THEN [ok |-> TRUE, kind |-> "nan", neg |-> FALSE, mant |-> << >>,
              exp |-> 0]
      ELSE IF hex THEN fail
      ELSE IF allDigits = << >> THEN fail
      ELSE IF hasExp /\ ~expOk THEN fail
      ELSE IF ~hasExp /\ mEnd # Len(body) THEN fail
      ELSE IF overflow THEN fail
      ELSE [ok |-> TRUE, kind |-> "finite", neg |-> neg, mant |-> mant,
            exp |-> exp]

\* mant * 10^k for k >= 0
Shift(mant, k) == IF mant = << >> THEN << >> ELSE [i \in 1..k |-> 0] \o mant

\* math.Round of mant * 10^exp: the nearest integer, halves away from zero.
\* The decimal value is rounded; the float64 nearest to it rounds to the
\* same integer when the mantissa has at most 9 digits, which holds for the
\* inputs drawn here, and for 2^63 itself.
Round(mant, exp) ==
  IF exp >= 0 THEN Shift(mant, exp)
  ELSE IF 0 - exp > Len(mant) THEN << >>
  ELSE LET whole == From(mant, 0 - exp)
           up == mant[0 - exp] >= 5
       IN  IF up THEN MulAdd(whole, 1, 1) ELSE whole

\* int64(f) for a float64 f: the value when it is in the range of int64;
\* otherwise, and for an infinity or a NaN, the Go specification leaves the
\* result to the implementation (amd64 gives the minimum, arm64 saturates,
\* a NaN may give 0): any of these, and no panic.
ConvertInt64(f) ==
  LET r == Round(f.mant, f.exp)
      inRange == \/ BigLess(r, Pow2To63)
                 \/ (f.neg /\ r = Pow2To63)
  IN  IF f.kind = "finite" /\ inRange THEN { Int64(f.neg, r) }
      ELSE { MinInt64, MaxInt64, ZeroInt64 }

ErrEmptyInt == "empty integer value"
ErrInvalidInt == "invalid integer value"

\* parseInt, lines 519-536: the set of results the call can return.
parseInt(s0) ==
  LET s == TrimSpace(s0)
      n == ParseInt(s)
      f == ParseFloat(s)
  IN  IF s = << >> THEN { [value |-> ZeroInt64, err |-> ErrEmptyInt] }
      ELSE IF n.ok THEN { [value |-> n.val, err |-> Nil] }
      ELSE IF f.ok
        THEN { [value |-> v, err |-> Nil] : v \in ConvertInt64(f) }
      ELSE { [value |-> ZeroInt64, err |-> ErrInvalidInt] }


\* ------------------------------------------------------------------------
\* Two independent calls
\* ------------------------------------------------------------------------

\* The state of the call whose steps the actions above take.
Current ==
  [pc |-> pc, call |-> call, entry |-> entry, config |-> config,
   section |-> section, visited |-> visited, stack |-> stack, err |-> err,
   result |-> result, assignLog |-> assignLog, headerLog |-> headerLog,
   requestLog |-> requestLog, scanned |-> scanned, fsOps |-> fsOps,
   cycleSeen |-> cycleSeen, handles |-> handles, parseLog |-> parseLog]

\* The visited set kept in one place for every parser.
Resume_SharedVisited(saved, running) ==
  [saved EXCEPT !.visited = running.visited]

\* newParser, lines 69-81: config, section and visited are fields of the
\* parser the call constructed, and the package keeps no variable that a
\* parser writes; the call that resumes finds the state it left (saved),
\* whatever the call that ran in between (running) did.
Resume(saved, running) == saved

\* The scheduler takes the processor from one call and gives it to the
\* other, between two steps (two lines) of either.
Switch ==
  LET r == Resume(other, Current) IN
  /\ other' = Current
  /\ pc' = r.pc
  /\ call' = r.call
  /\ entry' = r.entry
  /\ config' = r.config
  /\ section' = r.section
  /\ visited' = r.visited
  /\ stack' = r.stack
  /\ err' = r.err
  /\ result' = r.result
  /\ assignLog' = r.assignLog
  /\ headerLog' = r.headerLog
  /\ requestLog' = r.requestLog
  /\ scanned' = r.scanned
  /\ fsOps' = r.fsOps
  /\ cycleSeen' = r.cycleSeen
  /\ handles' = r.handles
  /\ parseLog' = r.parseLog
  /\ UNCHANGED << fs, applied >>

\* The top-level files the two calls read.
TwoCallTops ==
  { << LineIncludeB >>, << LineHeaderS, LineAssign >>,
    << LineIncludeDirC, LineAssignQuoted >>, << LineIfExistsSelf >>,
    << LineAssign, LineBadHeader >>, << LineIncludeAbsSelf >> }

InitTwo ==
  /\ Init
  /\ fs[PathA].lines \in TwoCallTops

NextTwo ==
  \/ Load
  \/ Parse
  \/ SkipLine
  \/ SectionHeader
  \/ IncludeRejected
  \/ Include
  \/ IncludeIfExists
  \/ IncludeDir
  \/ LoadDirNext
  \/ KeyValue
  \/ EndOfFile
  \/ EndOfDir
  \/ ReturnError
  \/ Return
  \/ Switch

SpecTwo == InitTwo /\ [][NextTwo]_vars


\* ------------------------------------------------------------------------
\* The command line: parseArgs
\* ------------------------------------------------------------------------

ErrMissingSeparator == "missing -- separator before command"

ErrMissingCommand == "missing command after --"

ErrPrefixValue == "--prefix requires a value"

ErrUnknownFlag == "unknown flag"

ErrPositional == "expected <ini-file> <section>"

Dashes == << "-", "-" >>

HelpShort == << "-", "h" >>

HelpLong == << "-", "-", "h", "e", "l", "p" >>

PrefixShort == << "-", "p" >>

PrefixLong == << "-", "-", "p", "r", "e", "f", "i", "x" >>

\* var a args
ZeroArgs == [prefix |-> << >>, iniFile |-> << >>, section |-> << >>,
             command |-> << >>]

\* The outcome of a call: the process has left with status 0 after printing
\* the usage text, or the call has returned a and err.
Exited == [exited |-> TRUE, a |-> ZeroArgs, err |-> Nil]

ReturnArgs(a, e) == [exited |-> FALSE, a |-> a, err |-> e]

\* The loop over the arguments before the separator, from index i (0-based)
\* with the prefix and the positional arguments found so far.
RECURSIVE parseArgsPre(_, _, _, _)
parseArgsPre(pre, i, a, positional) ==
  IF i >= Len(pre)
    THEN IF Len(positional) # 2
           THEN ReturnArgs(a, ErrPositional)
           ELSE ReturnArgs([a EXCEPT !.iniFile = positional[1],
                                     !.section = positional[2]], Nil)
    ELSE IF pre[i + 1] \in { PrefixShort, PrefixLong }
      THEN IF i + 1 >= Len(pre)
             THEN ReturnArgs(a, ErrPrefixValue)
             ELSE parseArgsPre(pre, i + 2,
                               [a EXCEPT !.prefix = ToUpper(pre[i + 2])],
                               positional)
      ELSE IF HasPrefix(pre[i + 1], << "-" >>)
        THEN ReturnArgs(a, ErrUnknownFlag)
        ELSE parseArgsPre(pre, i + 1, a, Append(positional, pre[i + 1]))

\* parseArgs(argv)
parseArgs(argv) ==
  IF \E k \in 1..Len(argv) : argv[k] \in { HelpShort, HelpLong }
    THEN Exited
    ELSE
      IF ~ \E k \in 1..Len(argv) : argv[k] = Dashes
        THEN ReturnArgs(ZeroArgs, ErrMissingSeparator)
        ELSE
          LET dashIdx ==
                (CHOOSE k \in 1..Len(argv) :
                   /\ argv[k] = Dashes
                   /\ \A j \in 1..(k - 1) : argv[j] # Dashes) - 1
              a == [ZeroArgs EXCEPT !.command = From(argv, dashIdx + 1)]
          IN  IF Len(a.command) = 0
                THEN ReturnArgs(a, ErrMissingCommand)
                ELSE parseArgsPre(Upto(argv, dashIdx), 0, a, << >>)


\* ------------------------------------------------------------------------
\* The functions applied to inputs of bounded length
\* ------------------------------------------------------------------------

\* An input waiting for the function fn.
Input(fn, x) == [fn |-> fn, in |-> x, out |-> << >>, done |-> FALSE]

\* The function has returned out.
Returned(out) == [applied EXCEPT !.out = out, !.done = TRUE]

Pending(fn) == applied.fn = fn /\ ~applied.done

Done(fn) == applied.fn = fn /\ applied.done

\* No Load or Parse call runs while a function is applied.
parserVars ==
  << fs, pc, call, config, section, visited, stack, err, result, assignLog,
     headerLog, requestLog, scanned, fsOps, cycleSeen, entry, other,
     handles, parseLog >>

\* The bytes of the boolean words that begin a word, the digits, a space
\* and an upper-case letter.
BoolBytes == { "o", "O", "n", "f", "t", "y", "1", "0", " " }

MaxBool == 3

\* Every prefix of every boolean word, as written, in upper case, between
\* white space, and followed by one more byte.
BoolWordInputs ==
  UNION { { p, [i \in DOMAIN p |-> IF p[i] = "e" THEN "E" ELSE p[i]],
            << " " >> \o p \o << "\t" >>, p \o << "x" >> } :
          p \in UNION { { Upto(w, n) : n \in 1..Len(w) } :
                         w \in Range(trueWords) \cup Range(falseWords) } }

BoolInputs == SeqsUpTo(BoolBytes, MaxBool) \cup BoolWordInputs

\* Param.Bool, lines 140-143: parseBool(p.value).
ApplyParseBool ==
  /\ Pending("parseBool")
  /\ applied' = Returned(parseBool(applied.in))
  /\ UNCHANGED parserVars

\* Digits, a sign, a point, an exponent letter and the x of the
\* hexadecimal prefix.
IntBytes == { "0", "1", "5", "9", "-", ".", "e", "x" }

MaxInt == 3

\* The values the documentation and the tests of Param.Int name, and values
\* outside the range of int64.
IntNamedInputs ==
  { << "0", "x", "F", "F" >>, << "0", "1", "0" >>, << "2", ".", "5" >>,
    << "-", "2", ".", "5" >>, << "-", "1", ".", "6" >>, << "3", ".", "2" >>,
    << " ", "4", "2", "\t" >>, << "a", "b", "c" >>, << "+", "7" >>,
    << "1", "e", "3", "0" >>, << "i", "n", "f" >>, << "-", "I", "n", "f" >>,
    << "n", "a", "n" >>, << "I", "n", "f", "i", "n", "i", "t", "y" >>,
    << "1", "e", "9", "9", "9" >>, << "1", "e", "1", "8" >>,
    << "9", "2", "2", "3", "3", "7", "2", "0", "3", "6", "8", "5", "4", "7",
       "7", "5", "8", "0", "7" >>,
    << "9", "2", "2", "3", "3", "7", "2", "0", "3", "6", "8", "5", "4", "7",
       "7", "5", "8", "0", "8" >>,
    << "-", "9", "2", "2", "3", "3", "7", "2", "0", "3", "6", "8", "5", "4",
       "7", "7", "5", "8", "0", "8" >> }

IntInputs == SeqsUpTo(IntBytes, MaxInt) \cup IntNamedInputs

\* Param.Int, lines 147-149: parseInt(p.value).
ApplyParseInt ==
  /\ Pending("parseInt")
  /\ \E r \in parseInt(applied.in) : applied' = Returned(r)
  /\ UNCHANGED parserVars


\* The bytes of a value to be quoted: a letter, a space, the quote and the
\* backslash.
QuotedBytes == { "a", " ", "'", "\\" }

MaxQuoted == 4

\* The quoted form of v that writes the quote at position i doubled when
\* mix[i] is false and after a backslash when it is true.
RECURSIVE EscapeFrom(_, _, _)
EscapeFrom(v, mix, i) ==
  IF i > Len(v) THEN << >>
  ELSE (IF v[i] # "'" THEN << v[i] >>
        ELSE IF mix[i] THEN << "\\", "'" >>
        ELSE << "'", "'" >>) \o EscapeFrom(v, mix, i + 1)

Quoted(v, mix) == << "'" >> \o EscapeFrom(v, mix, 1) \o << "'" >>

\* Every value with every choice of escape for each of its quotes.
QuotedInputs ==
  UNION { { [v |-> v, mix |-> mix, raw |-> Quoted(v, mix)] :
            mix \in { m \in [1..Len(v) -> BOOLEAN] :
                        \A i \in 1..Len(v) : m[i] => v[i] = "'" } } :
          v \in SeqsUpTo(QuotedBytes, MaxQuoted) }

\* parseValue, lines 367-375, on a raw value that begins with a quote.
ApplyParseQuotedValue ==
  /\ Pending("parseQuotedValue")
  /\ applied' = Returned(parseQuotedValue(applied.in.raw))
  /\ UNCHANGED parserVars


\* White space written around a name and around a value.
Pads == { << >>, << " ", "\t" >> }

ParamNames == { << "k" >>, << "K", "_", "1" >>, << "_", "a", "$" >> }

\* The bytes of a value: a letter, a space and the "=" sign.
ValueBytes == { "a", " ", "=" }

MaxValue == 3

\* The values written without quotes: not empty, no white space at either
\* end.
UnquotedValues ==
  { v \in SeqsUpTo(ValueBytes, MaxValue) :
      v # << >> /\ v[1] # " " /\ v[Len(v)] # " " }

\* A parameter line: the name alone ("bare"), the name and "=" ("empty"),
\* or the name, "=" and a value, written as it is or between quotes.
ParamLine(form, name, value, p1, p2, p3, p4) ==
  [form |-> form, name |-> name, value |-> value,
   line |-> p1 \o name \o p2 \o
            (IF form = "bare" THEN << >>
             ELSE IF form = "empty" THEN << "=" >> \o p3
             ELSE IF form = "unquoted" THEN << "=" >> \o p3 \o value \o p4
             ELSE << "=" >> \o p3 \o << "'" >> \o value \o << "'" >> \o p4)]

ParamLines ==
  { ParamLine("bare", n, << >>, p1, p2, << >>, << >>) :
      n \in ParamNames, p1 \in Pads, p2 \in Pads }
  \cup { ParamLine("empty", n, << >>, p1, p2, p3, << >>) :
           n \in ParamNames, p1 \in Pads, p2 \in Pads, p3 \in Pads }
  \cup { ParamLine("unquoted", << "k" >>, v, p[1], p[2], p[3], p[4]) :
           v \in UnquotedValues, p \in Pads \X Pads \X Pads \X Pads }
  \cup { ParamLine("quoted", << "k" >>, v, p[1], p[2], p[3], p[4]) :
           v \in SeqsUpTo(ValueBytes, MaxValue),
           p \in Pads \X Pads \X Pads \X Pads }

\* parse, lines 188-189 and 217: the line is stripped of its comment,
\* trimmed and given to parseKeyValue.
ApplyParseKeyValue ==
  /\ Pending("parseKeyValue")
  /\ applied' =
       Returned(parseKeyValue(TrimSpace(stripComment(applied.in.line))))
  /\ UNCHANGED parserVars


\* The bytes stripComment tells apart: the quote, the backslash, the "#"
\* sign and any other byte.
CommentBytes == { "a", "'", "\\", "#" }

MaxComment == 6

\* Lines of the tests of stripComment, shortened.
CommentNamedInputs ==
  { << "k", " ", "#", " ", "c" >>,
    << "'", "v", "#", "u", "'", " ", "#", " ", "c" >>,
    << "'", "i", "t", "'", "'", "s", "'", " ", "#", " ", "c" >>,
    << "'", "i", "t", "\\", "'", "s", "#", "'", " ", "#", "c" >> }

CommentInputs == SeqsUpTo(CommentBytes, MaxComment) \cup CommentNamedInputs

\* parse, line 188: stripComment(line).
ApplyStripComment ==
  /\ Pending("stripComment")
  /\ applied' = Returned(stripComment(applied.in))
  /\ UNCHANGED parserVars


\* The arguments before the separator: the prefix flag in its short form,
\* a word in lower case, a second word, and a flag that is not known.
PreWords == { PrefixShort, << "p", "g" >>, << "s" >>, << "-", "x" >> }

MaxPre == 4

\* The arguments after the separator: a command and arguments of its own
\* that are spelled like a flag of inigo or like the separator.
PostWords == { << "l", "s" >>, HelpShort, PrefixShort, Dashes }

MaxPost == 2

\* Argument vectors of the tests of parseArgs, with the help flag in its
\* long form after the separator, and the help flag alone.
ArgvNamedInputs ==
  { << PrefixLong, << "p", "g" >>, << "c" >>, << "s" >>, Dashes,
       << "l", "s" >> >>,
    << << "c" >>, << "s" >>, PrefixLong, << "P", "G" >>, Dashes,
       << "l", "s" >>, << "-", "U" >>, << "a" >> >>,
    << << "c" >>, << "s" >>, Dashes, << "l", "s" >>, HelpLong >>,
    << HelpShort >>,
    << HelpLong >>,
    << HelpShort, << "c" >>, << "s" >>, Dashes, << "l", "s" >> >> }

ArgvInputs ==
  { pre \o sep \o post :
      pre \in SeqsUpTo(PreWords, MaxPre),
      sep \in { << >>, << Dashes >> },
      post \in SeqsUpTo(PostWords, MaxPost) }
    \cup ArgvNamedInputs

\* main, line 36: parseArgs(os.Args[1:]).
ApplyParseArgs ==
  /\ Pending("parseArgs")
  /\ applied' = Returned(parseArgs(applied.in))
  /\ UNCHANGED parserVars


\* parse, lines 188-217, for one line of the source: the line is blank
\* after stripComment and TrimSpace, a section header, an include
\* directive, or a parameter handed to parseKeyValue.
parseLine(raw) ==
  LET line == TrimSpace(stripComment(raw))
      none == [name |-> << >>, value |-> << >>, err |-> Nil]
      m == DirectiveOf(line)
  IN  IF line = << >>
        THEN [kind |-> "blank", directive |-> << >>, rest |-> << >>,
              kv |-> none]
      ELSE IF HasPrefix(line, << "[" >>)
        THEN [kind |-> "header", directive |-> << >>, rest |-> << >>,
              kv |-> none]
      ELSE IF m.matched
        THEN [kind |-> "directive", directive |-> m.directive,
              rest |-> m.rest, kv |-> none]
        ELSE [kind |-> "param", directive |-> << >>, rest |-> << >>,
              kv |-> parseKeyValue(line)]

\* The keywords as written in lower case, in upper case and capitalised.
Capitalised(s) == [i \in 1..Len(s) |-> IF i = 1 THEN ToUpperByte(s[i]) ELSE s[i]]

KeywordSpellings ==
  UNION { { kw, ToUpper(kw), Capitalised(kw) } :
            kw \in { KwInclude, KwIncludeIfExists, KwIncludeDir } }

\* What may follow a keyword: white space (space, tab, form feed), a quote,
\* an equals sign, a letter and an underscore.
TailBytes == { " ", "\t", "\f", "'", "=", "d", "_" }

MaxTail == 3

\* Lines of the tests of matchDirective, and lines that are blank, section
\* headers or begin with other letters.
LineNamedInputs ==
  { KwInclude \o << " ", "'", "f", ".", "c", "'" >>,
    KwInclude \o << "d", " ", "=", " ", "t" >>,
    KwInclude \o << "_", "v", "a", "r", " ", "=", " ", "5" >>,
    KwInclude \o << "=", "x" >>,
    KwInclude \o << "\r", "'", "f", "'" >>,
    KwIncludeDir \o << "\f", "d" >>,
    << "i", "n", "c", "l", "u", "d", " ", "'", "f", "'" >>,
    << "s", "o", "m", "e", " ", "e", "l", "s", "e" >>,
    << "[", "s", "]" >>,
    << " ", "#", " ", "c" >>,
    << >> }

MaxAssign == 6

\* Assignments "k=" followed by a value of quotes, backslashes, "#" signs
\* and other bytes, and two assignments written with spaces.
AssignLines ==
  { << "k", "=" >> \o v : v \in SeqsUpTo(CommentBytes, MaxAssign) }
    \cup { << "k", " ", "=", " ", "i", "t", "'", "s", " ", "#", " ", "c" >>,
           << "k", " ", "=", " ", "'", "a", "'", " ", "'", "b", "#", "c", "'" >> }


\* The ways to write an assignment: "name=v", "name =v" and "name = v".
AssignForms == { << "=" >>, << " ", "=" >>, << " ", "=", " " >> }

\* The three forms for a parameter named like a directive keyword, in lower
\* case and in upper case, and for a parameter of another name.
KeywordAssignments ==
  { name \o form \o << "v" >> :
      name \in { KwInclude, KwIncludeIfExists, KwIncludeDir,
                 ToUpper(KwInclude), << "i", "n", "c" >> },
      form \in AssignForms }


LineInputs ==
  { kw \o tail : kw \in KeywordSpellings,
                 tail \in SeqsUpTo(TailBytes, MaxTail) }
    \cup LineNamedInputs
    \cup AssignLines
    \cup KeywordAssignments

\* parse, lines 184-217: one turn of the loop over the lines.
ApplyParseLine ==
  /\ Pending("parse")
  /\ applied' = Returned(parseLine(applied.in))
  /\ UNCHANGED parserVars

\* The kinds of integer field setField tells apart, with the width in bits
\* of each; the 8-, 16- and 64-bit kinds are modelled.
FieldKinds == { "int8", "int16", "int64", "uint8", "uint16", "uint64" }

Unsigned(kind) == kind \in { "uint8", "uint16", "uint64" }

Bits(kind) ==
  IF kind \in { "int8", "uint8" } THEN 8
  ELSE IF kind \in { "int16", "uint16" } THEN 16
  ELSE 64

RECURSIVE Pow2(_)
Pow2(n) == IF n = 0 THEN 1 ELSE 2 * Pow2(n - 1)

\* The magnitude mag modulo m, most significant digit first.
RECURSIVE BigModFrom(_, _, _, _)
BigModFrom(mag, m, i, r) ==
  IF i = 0 THEN r ELSE BigModFrom(mag, m, i - 1, (r * 10 + mag[i]) % m)

BigMod(mag, m) == BigModFrom(mag, m, Len(mag), 0)

\* The Go conversion of the int64 v to a signed integer of the given
\* width: the low bits of v in two's complement.
ConvertSigned(v, bits) ==
  IF bits = 64 THEN v
  ELSE LET m == Pow2(bits)
           low == BigMod(v.mag, m)
           u == IF v.neg THEN (m - low) % m ELSE low
       IN  IF u >= m \div 2 THEN Int64(TRUE, Big(m - u))
           ELSE Int64(FALSE, Big(u))

\* The Go conversion of the uint64 of magnitude mag to an unsigned integer
\* of the given width: the low bits.
ConvertUnsigned(mag, bits) ==
  IF bits = 64 THEN Int64(FALSE, mag)
  ELSE Int64(FALSE, Big(BigMod(mag, Pow2(bits))))

\* reflect.Value.SetInt and SetUint store the number converted to the kind
\* of the field.
SetInt(kind, v) == ConvertSigned(v, Bits(kind))

SetUint(kind, mag) == ConvertUnsigned(mag, Bits(kind))

ErrNegativeUint == "negative value for unsigned field"

\* setField, lines 188-223, for a field of an integer kind that holds
\* zero: the set of results the call can give, each with the integer that
\* Param.Int returned (int), the number the field holds afterwards (field)
\* and the error.
setField(kind, value) ==
  { IF r.err # Nil
      THEN [int |-> r.value, field |-> ZeroInt64, err |-> r.err]
    ELSE IF Unsigned(kind)
      THEN IF r.value.neg
             THEN [int |-> r.value, field |-> ZeroInt64,
                   err |-> ErrNegativeUint]
           ELSE [int |-> r.value, field |-> SetUint(kind, r.value.mag),
                 err |-> Nil]
    ELSE [int |-> r.value, field |-> SetInt(kind, r.value), err |-> Nil] :
    r \in parseInt(value) }

\* The name of the only field of the target struct.
FieldName == << "N" >>

\* ApplyInto, lines 69-72, on a struct with one tagged field of the kind,
\* the parameter being present: the error of setField is returned in a
\* message that begins with the name of the field (named).
ApplyIntoField(kind, value) ==
  { [int |-> r.int, field |-> r.field, err |-> r.err,
     named |-> IF r.err = Nil THEN << >> ELSE FieldName] :
    r \in setField(kind, value) }

\* Numbers at the ends of the ranges of the 8- and 16-bit kinds and just
\* outside them, the values of the tests, and two beyond 32 bits.
WidthNamedInputs ==
  { << "4", "2" >>, << "-", "1" >>, << "1", "2", "7" >>, << "1", "2", "8" >>,
    << "-", "1", "2", "8" >>, << "-", "1", "2", "9" >>, << "2", "0", "0" >>,
    << "2", "5", "5" >>, << "2", "5", "6" >>, << "3", "0", "0" >>,
    << "3", "2", "0", "0", "0" >>, << "3", "2", "7", "6", "7" >>,
    << "3", "2", "7", "6", "8" >>, << "-", "3", "2", "7", "6", "9" >>,
    << "6", "5", "0", "0", "0" >>, << "6", "5", "5", "3", "5" >>,
    << "6", "5", "5", "3", "6" >>, << "7", "0", "0", "0", "0" >>,
    << "9", "9", "9", "9", "9", "9", "9", "9", "9", "9" >>,
    << "-", "4", "2", "9", "4", "9", "6", "7", "2", "9", "7" >> }

FieldInputs ==
  { [kind |-> k, value |-> v] :
      k \in FieldKinds, v \in IntInputs \cup WidthNamedInputs }

\* ApplyInto(cfg, "", &target), lines 30-74, where cfg holds the value
\* under the tag of the field.
ApplyApplyInto ==
  /\ Pending("ApplyInto")
  /\ \E r \in ApplyIntoField(applied.in.kind, applied.in.value) :
       applied' = Returned(r)
  /\ UNCHANGED parserVars


ApplyInputs ==
  { Input("parseBool", x) : x \in BoolInputs }
    \cup { Input("parseInt", x) : x \in IntInputs }
    \cup { Input("parseQuotedValue", x) : x \in QuotedInputs }
    \cup { Input("parseKeyValue", x) : x \in ParamLines }
    \cup { Input("stripComment", x) : x \in CommentInputs }
    \cup { Input("parseArgs", x) : x \in ArgvInputs }
    \cup { Input("parse", x) : x \in LineInputs }
    \cup { Input("ApplyInto", x) : x \in FieldInputs }

InitApply ==
  /\ fs = FileSystem(<< >>)
  /\ pc = "init"
  /\ call = "none"
  /\ config = NewConfig
  /\ section = << >>
  /\ visited = {}
  /\ stack = << >>
  /\ err = Nil
  /\ result = [config |-> NilConfig, err |-> Nil]
  /\ assignLog = << >>
  /\ headerLog = {}
  /\ requestLog = << >>
  /\ scanned = 0
  /\ fsOps = 0
  /\ cycleSeen = FALSE
  /\ entry = << >>
  /\ other = NewParser
  /\ handles = << >>
  /\ parseLog = << >>
  /\ applied \in ApplyInputs

NextApply ==
  \/ ApplyParseBool
  \/ ApplyParseInt
  \/ ApplyParseQuotedValue
  \/ ApplyParseKeyValue
  \/ ApplyStripComment
  \/ ApplyParseArgs
  \/ ApplyParseLine
  \/ ApplyApplyInto

SpecApply == InitApply /\ [][NextApply]_vars


\* ------------------------------------------------------------------------
\* Struct mapping: Marshal, SaveFrom, LoadInto, ApplyInto
\* ------------------------------------------------------------------------

\* The struct saved and loaded has one tagged field of each kind modelled:
\* Str string `ini:"str"`, Flag bool `ini:"flag"`, Num int64 `ini:"num"`
\* and Cnt uint64 `ini:"cnt"`.  An int64 is [neg, mag] and a uint64 a
\* magnitude, as for parseInt.

TagStr == << "s", "t", "r" >>
TagFlag == << "f", "l", "a", "g" >>
TagNum == << "n", "u", "m" >>
TagCnt == << "c", "n", "t" >>

ZeroStruct ==
  [Str |-> << >>, Flag |-> FALSE, Num |-> ZeroInt64, Cnt |-> << >>]

\* fmt.Sprintf("%d", n) for a magnitude.
FormatUint(mag) ==
  IF mag = << >> THEN << "0" >>
  ELSE [i \in 1..Len(mag) |-> HexDigits[mag[Len(mag) - i + 1] + 1]]

\* fmt.Sprintf("%d", n) for an int64.
FormatInt(n) == (IF n.neg THEN << "-" >> ELSE << >>) \o FormatUint(n.mag)

\* strings.ReplaceAll(s, "'", "''")
RECURSIVE DoubleQuotes(_)
DoubleQuotes(s) ==
  IF s = << >> THEN << >>
  ELSE (IF s[1] = "'" THEN << "'", "'" >> ELSE << s[1] >>)
         \o DoubleQuotes(From(s, 1))

\* quoteValue, lines 167-185.
quoteValue(s) ==
  IF s = << >> THEN << "'", "'" >>
  ELSE IF \E i \in 1..Len(s) : s[i] \in { " ", "\t", "#", "=", "'" }
    THEN << "'" >> \o DoubleQuotes(s) \o << "'" >>
  ELSE s

\* Marshal, lines 94-141: the lines of the text written, the section header
\* first when the section is named, then one line for every field that is
\* not the zero value of its type.
Marshal(x, sec) ==
  LET field(tag, value) == << tag \o << " ", "=", " " >> \o value >> IN
  (IF sec # << >> THEN << << "[" >> \o sec \o << "]" >> >> ELSE << >>)
  \o (IF x.Str # << >> THEN field(TagStr, quoteValue(x.Str)) ELSE << >>)
  \o (IF x.Flag THEN field(TagFlag, << "o", "n" >>) ELSE << >>)
  \o (IF x.Num # ZeroInt64 THEN field(TagNum, FormatInt(x.Num)) ELSE << >>)
  \o (IF x.Cnt # << >> THEN field(TagCnt, FormatUint(x.Cnt)) ELSE << >>)

ErrSectionNotFound == "section not found"

\* ApplyInto, lines 30-74, with setField, lines 188-223, into a zero-valued
\* target: the set of results [y, err] the call can give.  The fields are
\* set in order and the first error ends the call, leaving the fields set
\* before it.
ApplyInto(cfg, secName) ==
  LET sec == Section(cfg, secName)
      has(tag) == HasParam(sec.params, tag)
      val(tag) == GetParam(sec.params, tag).value
      b == parseBool(val(TagFlag))
      y1 == IF has(TagStr) THEN [ZeroStruct EXCEPT !.Str = val(TagStr)]
            ELSE ZeroStruct
      y2 == IF has(TagFlag) THEN [y1 EXCEPT !.Flag = b.value] ELSE y1
      nums == IF has(TagNum) THEN parseInt(val(TagNum))
              ELSE { [value |-> ZeroInt64, err |-> Nil] }
      cnts == IF has(TagCnt) THEN parseInt(val(TagCnt))
              ELSE { [value |-> ZeroInt64, err |-> Nil] }
  IN  IF sec.nil THEN { [y |-> ZeroStruct, err |-> ErrSectionNotFound] }
      ELSE IF has(TagFlag) /\ b.err # Nil THEN { [y |-> y1, err |-> b.err] }
      ELSE { IF n.err # Nil THEN [y |-> y2, err |-> n.err]
             ELSE IF c.err # Nil
               THEN [y |-> [y2 EXCEPT !.Num = n.value], err |-> c.err]
             ELSE IF c.value.neg
               THEN [y |-> [y2 EXCEPT !.Num = n.value],
                     err |-> ErrNegativeUint]
             ELSE [y |-> [y2 EXCEPT !.Num = n.value, !.Cnt = c.value.mag],
                   err |-> Nil] :
             n \in nums, c \in cnts }

\* The bytes of a string field: a letter, the quote, the backslash, "#"
\* (which makes quoteValue quote the value) and the form feed, white space
\* that does not.
StrBytes == { "a", "'", "\\", "#", "\f" }

MaxStr == 3

\* 2^64 - 1
MaxUint64 ==
  BigOfDigits(<< "1", "8", "4", "4", "6", "7", "4", "4", "0", "7", "3", "7",
                 "0", "9", "5", "5", "1", "6", "1", "5" >>, 10)

\* The values of the three other fields: zero, ordinary and extreme ones.
OtherFields ==
  { [Flag |-> FALSE, Num |-> ZeroInt64, Cnt |-> << >>],
    [Flag |-> TRUE, Num |-> Int64(TRUE, << 2, 1 >>), Cnt |-> << 7 >>],
    [Flag |-> TRUE, Num |-> MaxInt64, Cnt |-> MaxInt64.mag],
    [Flag |-> FALSE, Num |-> MinInt64, Cnt |-> MaxUint64] }

\* The structs saved: every string of up to MaxStr bytes with each choice
\* of the other fields.
Structs ==
  { [Str |-> s, Flag |-> o.Flag, Num |-> o.Num, Cnt |-> o.Cnt] :
      s \in SeqsUpTo(StrBytes, MaxStr), o \in OtherFields }

SectionArgs == { << >>, << "s", "v", "c" >> }

StructInputs ==
  { [x |-> x, section |-> sec] : x \in Structs, sec \in SectionArgs }

\* SaveFrom(x, section, path), lines 84-90: the text Marshal gives is
\* written to the file a.conf of the working directory.
SaveFrom ==
  /\ Pending("SaveFrom")
  /\ fs' = [fs EXCEPT
              ![PathA] = File(Marshal(applied.in.x, applied.in.section))]
  /\ applied' = [applied EXCEPT !.fn = "LoadInto"]
  /\ UNCHANGED << parseLog, handles, pc, call, config, section, visited,
                  stack, err, result, assignLog, headerLog, requestLog,
                  scanned, fsOps, cycleSeen, entry, other >>

\* LoadInto(path, section, &y), line 21: Load(path).
LoadInto ==
  /\ Pending("LoadInto")
  /\ LoadPath(ArgRelA)

\* LoadInto, lines 22-25: the error of Load, or ApplyInto on its Config.
LoadIntoReturn ==
  /\ Pending("LoadInto")
  /\ pc = "done"
  /\ \E r \in IF result.err # Nil
                THEN { [y |-> ZeroStruct, err |-> result.err] }
                ELSE ApplyInto(result.config, applied.in.section) :
       applied' = Returned(r)
  /\ UNCHANGED parserVars

InitStruct ==
  /\ fs = FileSystem(<< >>)
  /\ pc = "init"
  /\ call = "none"
  /\ config = NewConfig
  /\ section = << >>
  /\ visited = {}
  /\ stack = << >>
  /\ err = Nil
  /\ result = [config |-> NilConfig, err |-> Nil]
  /\ assignLog = << >>
  /\ headerLog = {}
  /\ requestLog = << >>
  /\ scanned = 0
  /\ fsOps = 0
  /\ cycleSeen = FALSE
  /\ entry = << >>
  /\ other = NewParser
  /\ handles = << >>
  /\ parseLog = << >>
  /\ applied \in { Input("SaveFrom", i) : i \in StructInputs }

NextStruct ==
  \/ SaveFrom
  \/ LoadInto
  \/ SectionHeader
  \/ KeyValue
  \/ EndOfFile
  \/ ReturnError
  \/ Return
  \/ LoadIntoReturn

SpecStruct == InitStruct /\ [][NextStruct]_vars


\* ------------------------------------------------------------------------
\* Properties
\* ------------------------------------------------------------------------

\* The index of the last assignment in assignLog to the case-folded name n
\* made while sec was the active section, or 0.
LastAssignment(sec, n) ==
  LET hits == { i \in 1..Len(assignLog) :
                  assignLog[i].sec = sec /\ ToLower(assignLog[i].name) = n }
  IN  IF hits = {} THEN 0 ELSE CHOOSE i \in hits : \A j \in hits : j <= i

\* cfg holds, for every section and case-folded name, exactly the display
\* name and value of the last assignment logged, and nothing else.
HoldsLastAssignments(cfg) ==
  \A s \in DOMAIN cfg.sections :
    /\ DOMAIN cfg.sections[s] =
         { ToLower(assignLog[i].name) :
             i \in { j \in 1..Len(assignLog) : assignLog[j].sec = s } }
    /\ \A n \in DOMAIN cfg.sections[s] :
         LET last == assignLog[LastAssignment(s, n)] IN
         /\ HasParam(cfg.sections[s], last.name)
         /\ GetParam(cfg.sections[s], n) = [name |-> last.name, value |-> last.value]

\* C1: last value wins.  In every state of a Parse/Load, and in the Config
\* returned, GetParam(n) on section S gives the value and the originally
\* cased name of the most recent assignment to the case-folded name n made
\* while S was active, whichever file the assignments came from; a section
\* holds no parameter other than those.
C1_LastValueWins ==
  /\ \A i \in 1..Len(assignLog) : assignLog[i].sec \in DOMAIN config.sections
  /\ HoldsLastAssignments(config)
  /\ (pc = "done" /\ result.err = Nil) => HoldsLastAssignments(result.config)

\* A Load has returned a Config in which a name was assigned twice in one
\* section, with different case and value, by two different files.
C1_Witness ==
  /\ pc = "done"
  /\ result.err = Nil
  /\ \E i, j \in 1..Len(assignLog) :
       /\ i < j
       /\ assignLog[i].sec = assignLog[j].sec
       /\ assignLog[i].name # assignLog[j].name
       /\ ToLower(assignLog[i].name) = ToLower(assignLog[j].name)
       /\ assignLog[i].value # assignLog[j].value
       /\ assignLog[i].file # assignLog[j].file

\* C2: cycle detection.  Once a file has been requested while an activation
\* higher up the call stack is parsing it (under whatever spelling of its
\* path), Load returns no Config and the "circular include" error; and no
\* path is being parsed by two activations at once, so the depth of the
\* recursion is bounded by the number of distinct paths.
C2_CycleDetected ==
  /\ (pc = "done" /\ cycleSeen) =>
       (result.err = ErrCircular /\ result.config = NilConfig)
  /\ \A i, j \in 1..Len(stack) :
       (i # j /\ stack[i].fn = "parse" /\ stack[j].fn = "parse")
         => stack[i].path # stack[j].path

\* Load has returned after /d/z/q.conf, loaded through include_dir, asked
\* for the top-level file /d/a.conf as '../e/../a.conf'.
C2_Witness ==
  /\ pc = "done"
  /\ cycleSeen
  /\ \E i \in 1..Len(requestLog) :
       /\ requestLog[i].from = PathZQ
       /\ requestLog[i].directive = KwIncludeIfExists
       /\ requestLog[i].resolved = PathA
       /\ requestLog[i].arg # PathA

IsAscending(s) == \A i, j \in 1..Len(s) : i < j => StrLess(s[i], s[j])

\* The default section exists in cfg and SectionNames lists, in ascending
\* order, exactly the names of the headers processed.
DefaultSectionUnlisted(cfg) ==
  /\ ~Section(cfg, << >>).nil
  /\ Section(cfg, << >>).name = << >>
  /\ HasSection(cfg, << >>)
  /\ cfg.defaultSection = << >>
  /\ LET names == SectionNames(cfg) IN
     /\ \A i \in 1..Len(names) : names[i] # << >>
     /\ IsAscending(names)
     /\ Range(names) = headerLog

\* C4: the default section always exists and is never listed, in every
\* state of a parse and in every Config returned.
C4_DefaultSection ==
  /\ DefaultSectionUnlisted(config)
  /\ (pc = "done" /\ result.err = Nil) => DefaultSectionUnlisted(result.config)

\* A Config with two named sections has been returned.
C4_Witness ==
  /\ pc = "done"
  /\ result.err = Nil
  /\ Cardinality(headerLog) = 2
  /\ Len(SectionNames(result.config)) = 2

\* C5: section re-entry merges.  A header naming an existing section makes
\* that section active and leaves the Config as it is, and the number of
\* sections is the number of distinct header names plus one.
C5_ReentryMerges ==
  /\ [](Cardinality(DOMAIN config.sections) = Cardinality(headerLog) + 1)
  /\ [][ ( /\ AtLine
           /\ HasPrefix(CurLine, << "[" >>)
           /\ parseSectionHeader(CurLine).err = Nil
           /\ parseSectionHeader(CurLine).name \in DOMAIN config.sections )
         => ( /\ config' = config
              /\ section' = parseSectionHeader(CurLine).name
              /\ err' = Nil )
       ]_vars

\* The header [s] of /d/a.conf has just re-entered the section s, which
\* holds the parameters an included file stored in it.
C5_Witness ==
  /\ Running
  /\ Top.path = PathA
  /\ Top.idx > 0
  /\ Top.lines[Top.idx] = LineHeaderS
  /\ section = << "s" >>
  /\ config.sections[<< "s" >>] # NoParams
  /\ PathB \in visited

\* C6: Parse rejects every directive.  A line that matches a directive while
\* there is no base directory yields the "cannot resolve paths without a
\* base directory" error whatever its argument, and a Parse makes no
\* operating system call and visits no path.
C6_ParseRejectsIncludes ==
  /\ [](call = "Parse" => (fsOps = 0 /\ visited = {} /\ Len(stack) <= 1))
  /\ [][ (AtDirective /\ Top.baseDir = << >>)
         => (err' = ErrNoBaseDir /\ fsOps' = fsOps /\ stack' = Advance(stack))
       ]_vars
  /\ [](\A i \in 1..Len(stack) :
          stack[i].fn = "parse" => ((stack[i].baseDir = << >>) <=> (call = "Parse")))

\* Parse has rejected a directive whose path argument is malformed.
C6_Witness ==
  /\ call = "Parse"
  /\ err = ErrNoBaseDir
  /\ stack # << >>
  /\ Top.idx > 0
  /\ Top.lines[Top.idx] = LineIncludeBadPath

\* C7: all or nothing.  Once a line has produced an error, no further line
\* is scanned and neither the Config, the active section nor the visited set
\* changes, no operating system call is made, the error is kept as it is up
\* to the caller, and the call returns it with a nil Config; without an
\* error the call returns the Config built.
C7_AllOrNothing ==
  /\ [][ err # Nil =>
           /\ err' = err
           /\ scanned' = scanned
           /\ config' = config
           /\ section' = section
           /\ visited' = visited
           /\ fsOps' = fsOps
           /\ Len(stack') <= Len(stack)
       ]_vars
  /\ [](pc = "done" =>
          /\ result.err = err
          /\ result.config = IF err = Nil THEN config ELSE NilConfig)

\* A Load has returned an error raised inside an included file after
\* assignments had been stored.
C7_Witness ==
  /\ pc = "done"
  /\ call = "Load"
  /\ result.err # Nil
  /\ result.config = NilConfig
  /\ assignLog # << >>
  /\ Cardinality(visited) >= 2


\* C8: include_if_exists.  When the resolved path does not exist the
\* directive changes nothing but the position of the scanner: no error, and
\* the Config, the active section and the visited set stay as they are; when
\* it exists the directive has the effect and the error of loadFile on that
\* path, which is what include does.
C8_IncludeIfExists ==
  [][ ( /\ AtDirective
        /\ DirectiveOf(CurLine).directive = KwIncludeIfExists
        /\ includeCheck(DirectiveOf(CurLine).rest, Top.baseDir).err = Nil )
      => LET c == includeCheck(DirectiveOf(CurLine).rest, Top.baseDir)
             resolved == resolvePath(c.path, Top.baseDir)
             o == loadFile(resolved, Advance(stack))
         IN  /\ config' = config
             /\ section' = section
             /\ IF Lookup(resolved) = NoEnt
                  THEN /\ err' = Nil
                       /\ visited' = visited
                       /\ stack' = Advance(stack)
                  ELSE /\ err' = o.err
                       /\ visited' = o.visited
                       /\ stack' = o.stack
    ]_vars

\* A Load that met include_if_exists on a missing path has gone on and
\* returned a Config.
C8_Witness ==
  /\ pc = "done"
  /\ result.err = Nil
  /\ assignLog # << >>
  /\ \E i \in 1..Len(requestLog) :
       /\ requestLog[i].directive = KwIncludeIfExists
       /\ Lookup(requestLog[i].resolved) = NoEnt
       /\ requestLog[i].resolved \notin visited

\* The names of the direct entries of dir whose kind is in kinds, that end
\* in ".conf" and do not start with ".".
ConfNames(dir, kinds) ==
  { Base(p) : p \in { q \in DOMAIN fs :
      /\ q # Root
      /\ Dir(q) = Lookup(dir)
      /\ fs[q].kind \in kinds
      /\ HasSuffix(Base(q), << ".", "c", "o", "n", "f" >>)
      /\ ~HasPrefix(Base(q), << "." >>) } }

\* The greatest of a non-empty set of strings.
Greatest(S) == CHOOSE x \in S : \A y \in S \ {x} : StrLess(y, x)

\* For the loadDir activation f, about to return: a parameter that, since f
\* began, was assigned only by files f loaded itself has the name and value
\* last assigned by the one of them that has the greatest name.
GreatestNameWins(f) ==
  LET since == (f.logStart + 1)..Len(assignLog)
      own(i) == /\ Dir(assignLog[i].file) = Clean(f.path)
                /\ Base(assignLog[i].file) \in Range(f.loaded)
  IN  \A s \in DOMAIN config.sections : \A n \in DOMAIN config.sections[s] :
        LET A == { i \in since : assignLog[i].sec = s /\ ToLower(assignLog[i].name) = n }
        IN  (A # {} /\ \A i \in A : own(i)) =>
              LET last == assignLog[CHOOSE i \in A : \A j \in A : j <= i] IN
              /\ Base(last.file) = Greatest({ Base(assignLog[i].file) : i \in A })
              /\ GetParam(config.sections[s], n) = [name |-> last.name, value |-> last.value]

\* Every loadDir activation has passed to loadFile, in ascending byte order
\* and each once, names of direct entries of its directory of the given
\* kinds, none of them greater than one it has not passed yet; and when it
\* is about to return without error it has passed them all and the greatest
\* name has won.
LoadsConfNames(kinds) ==
  \A k \in 1..Len(stack) :
    stack[k].fn = "loadDir" =>
      LET f == stack[k]
          E == ConfNames(f.path, kinds)
      IN  /\ IsAscending(f.loaded)
          /\ Range(f.loaded) \subseteq E
          /\ \A n \in E \ Range(f.loaded) :
               \A i \in 1..Len(f.loaded) : StrLess(f.loaded[i], n)
          /\ (k = Len(stack) /\ err = Nil /\ f.idx = Len(f.files)) =>
               (Range(f.loaded) = E /\ GreatestNameWins(f))

\* C9 as stated: include_dir loads exactly the regular files among the
\* direct entries that end in ".conf" and do not start with "."; symbolic
\* links and other entries that are not regular files are never loaded.
C9_RegularFilesOnly == LoadsConfNames({"file"})

\* C9 as amended: include_dir loads exactly the direct entries that are not
\* directories (regular files, and also symbolic links and whatever else
\* IsDir is false for), whose name ends in ".conf" and does not start with
\* ".", each once and in ascending byte order of the names, up to the first
\* one that fails; sub-directories, dotfiles and other suffixes are never
\* loaded, and of the files loaded the one with the greatest name wins.
C9_NonDirectoriesOnly == LoadsConfNames({"file", "symlink"})

\* include_dir 'c' has loaded 10.conf, 2.conf and the symbolic link l.conf
\* of /d/c, in that order, and is about to return.
C9_Witness ==
  /\ Running
  /\ Top.fn = "loadDir"
  /\ Top.path = DirC
  /\ Top.idx = Len(Top.files)
  /\ Top.loaded = << Base(PathC10), Base(PathC2), Base(PathCLink) >>
  /\ GetParam(config.sections[section], << "k" >>) =
       [name |-> << "K" >>, value |-> << "d", "g" >>]

\* C10: relative include paths are resolved against the directory of the
\* file that holds the directive, and rooted paths are used as written:
\* every path a directive resolved is its argument if that is rooted, and
\* otherwise the argument joined to the directory of the file being parsed;
\* every file is parsed with its own directory as base directory; and a file
\* entered from a directive is the one at the resolved path.
C10_RelativeToIncluder ==
  /\ \A i \in 1..Len(requestLog) :
       LET r == requestLog[i] IN
       /\ r.from # << >>
       /\ r.resolved = IF IsAbs(r.arg) THEN r.arg ELSE Join(Dir(r.from), r.arg)
  /\ \A k \in 1..Len(stack) :
       (stack[k].fn = "parse" /\ stack[k].path # << >>) =>
         /\ stack[k].baseDir = Dir(stack[k].path)
         /\ (k > 1 /\ stack[k - 1].fn = "parse") =>
              \E i \in 1..Len(requestLog) :
                /\ requestLog[i].from = stack[k - 1].path
                /\ requestLog[i].resolved = stack[k].path
         /\ (k > 1 /\ stack[k - 1].fn = "loadDir") =>
              /\ Dir(stack[k].path) = Clean(stack[k - 1].path)
              /\ Base(stack[k].path) \in Range(stack[k - 1].loaded)

\* /d/e/f.conf, included from /d/b.conf, has included 'g.conf': the file
\* being parsed is /d/e/g.conf, and /d/g.conf has not been touched.
C10_Witness ==
  /\ Running
  /\ Top.path = PathEG
  /\ PathG \notin visited
  /\ \E i \in 1..Len(requestLog) :
       /\ requestLog[i].from = PathEF
       /\ ~IsAbs(requestLog[i].arg)
       /\ requestLog[i].resolved = PathEG

\* C11: GetParam is total and read-only.  A call of GetParam on any section
\* of a returned Config, with a name in any case, returns a Param and leaves
\* the Config as it was: a stored name gives the stored Param whatever the
\* case asked for; an absent name gives a Param with that name and the
\* empty value, HasParam is still false for it afterwards and AllParams of
\* the section is unchanged.
C11_GetParamReadOnly ==
  [][ (pc = "done" /\ applied'.fn = "GetParam") =>
        LET s == applied'.in[1]
            name == applied'.in[2]
            before == Section(result.config, s).params
            after == Section(result'.config, s).params
            p == applied'.out
        IN  /\ result' = result
            /\ config' = config
            /\ DOMAIN p = { "name", "value" }
            /\ HasParam(before, name) =>
                 /\ p = before[ToLower(name)]
                 /\ ToLower(p.name) = ToLower(name)
            /\ ~HasParam(before, name) =>
                 /\ p = [name |-> name, value |-> << >>]
                 /\ ~HasParam(after, name)
                 /\ AllParams(after) = AllParams(before) ]_vars

\* GetParam was asked for a name the section does not hold, on a section
\* that holds another parameter.
C11_Witness ==
  /\ pc = "done"
  /\ applied.fn = "GetParam"
  /\ LET params == Section(result.config, applied.in[1]).params IN
       /\ ~HasParam(params, applied.in[2])
       /\ applied.out.value = << >>
       /\ AllParams(params) # << >>


\* The circular include error is raised only in a call that itself
\* requested a file it was parsing.
OwnCycleOnly(p) == p.err = ErrCircular => p.cycleSeen

\* Two calls made with the same input return the same result.
SameInputSameResult ==
  (pc = "done" /\ other.pc = "done" /\ call = other.call
     /\ entry = other.entry) => result = other.result

\* C12: two calls of Load / Parse, run one after the other or interleaved
\* line by line in any order, are independent.  Every step either runs one
\* call and leaves the state of the other (its Config, active section,
\* visited set and call stack) unchanged, or hands each call back exactly
\* the state it left; the circular include error is raised in a call only
\* for a cycle of its own, so loading the same file in both calls never
\* raises it; and two calls made with the same input return the same
\* result, Config or error.
C12_CallsIndependent ==
  /\ [](OwnCycleOnly(Current) /\ OwnCycleOnly(other) /\ SameInputSameResult)
  /\ [][ \/ other' = other
         \/ (other' = Current /\ Current' = other) ]_vars

\* Both calls are loading the same file and each is part of the way through
\* it: their lines interleave, each has the file in a visited set of its
\* own, and neither has an error.
C12_Witness ==
  /\ pc = "running"
  /\ other.pc = "running"
  /\ call = "Load"
  /\ other.call = "Load"
  /\ entry = other.entry
  /\ visited # {}
  /\ visited \cap other.visited # {}
  /\ scanned > 0
  /\ other.scanned > 0
  /\ stack # << >>
  /\ other.stack # << >>
  /\ err = Nil
  /\ other.err = Nil

\* The non-empty prefixes of the words of ws.
Prefixes(ws) ==
  UNION { { Upto(ws[i], n) : n \in 1..Len(ws[i]) } : i \in DOMAIN ws }

\* C13: parseBool.  With t the input trimmed and lower-cased: the empty t
\* fails; "1" is true and "0" is false; otherwise t is true when it is a
\* prefix of a word of {on, true, yes} and of none of {off, false, no},
\* false in the opposite case, an "ambiguous" error when it is a prefix of
\* both kinds and an "invalid" error when it is a prefix of neither.  "o" is
\* the only ambiguous input, and "t", "f", "y", "n" succeed.
C13_ParseBool ==
  Done("parseBool") =>
    LET t == ToLower(TrimSpace(applied.in))
        r == applied.out
        isTrue == t \in Prefixes(trueWords)
        isFalse == t \in Prefixes(falseWords)
        True == [value |-> TRUE, err |-> Nil]
        False == [value |-> FALSE, err |-> Nil]
    IN  /\ t = << >> => r.err = ErrEmptyBool
        /\ t = << "1" >> => r = True
        /\ t = << "0" >> => r = False
        /\ (t \notin { << >>, << "1" >>, << "0" >> }) =>
             /\ (isTrue /\ ~isFalse) => r = True
             /\ (isFalse /\ ~isTrue) => r = False
             /\ (isTrue /\ isFalse) => r.err = ErrAmbiguousBool
             /\ (~isTrue /\ ~isFalse) => r.err = ErrInvalidBool
        /\ r.err = ErrAmbiguousBool <=> t = << "o" >>
        /\ t \in { << "t" >>, << "y" >> } => r = True
        /\ t \in { << "f" >>, << "n" >> } => r = False

\* parseBool was given "o" in upper case or between spaces and called it
\* ambiguous.
C13_Witness ==
  /\ Done("parseBool")
  /\ applied.in # << "o" >>
  /\ ToLower(TrimSpace(applied.in)) = << "o" >>
  /\ applied.out.err = ErrAmbiguousBool


\* The int64 with the value of the small integer n.
Num(n) == IF n < 0 THEN Int64(TRUE, Big(0 - n)) ELSE Int64(FALSE, Big(n))

\* What parseInt must give for the values the documentation names.
IntExamples ==
  LET is(n) == applied.out = [value |-> Num(n), err |-> Nil] IN
  /\ applied.in = << "0", "x", "F", "F" >> => is(255)
  /\ applied.in = << "0", "1", "0" >> => is(8)
  /\ applied.in = << "2", ".", "5" >> => is(3)
  /\ applied.in = << "-", "2", ".", "5" >> => is(0 - 3)
  /\ applied.in = << "-", "1", ".", "6" >> => is(0 - 2)
  /\ applied.in = << "3", ".", "2" >> => is(3)
  /\ applied.in = << " ", "4", "2", "\t" >> => is(42)
  /\ applied.in = << "1", "5" >> => is(15)
  /\ applied.in = << "-", "9" >> => is(0 - 9)
  /\ applied.in = << "1", ".", "5" >> => is(2)
  /\ applied.in = << "1", "e", "1" >> => is(10)
  /\ applied.in = << ".", "5" >> => is(1)
  /\ applied.in = << "-", ".", "1" >> => is(0)
  /\ applied.in = << "0", "x", "1" >> => is(1)
  /\ applied.in \in { << >>, << " " >> } => applied.out.err = ErrEmptyInt
  /\ applied.in \in { << "a", "b", "c" >>, << "x" >>, << "-" >>, << "." >>,
                      << "e" >>, << "1", "e" >>, << "0", "x" >>,
                      << "1", ".", "." >>, << "1", "e", "9", "9", "9" >> }
       => applied.out.err = ErrInvalidInt

\* Values that are not finite numbers an int64 can hold.
NotInInt64 ==
  { << "1", "e", "3", "0" >>, << "i", "n", "f" >>, << "-", "I", "n", "f" >>,
    << "n", "a", "n" >>, << "I", "n", "f", "i", "n", "i", "t", "y" >>,
    << "9", "2", "2", "3", "3", "7", "2", "0", "3", "6", "8", "5", "4", "7",
       "7", "5", "8", "0", "8" >> }

\* C14: Param.Int reads decimal, 0x hexadecimal and leading-zero octal
\* integers ("0xFF" is 255, "010" is 8), rounds a fractional value to the
\* nearest integer with halves away from zero (2.5 to 3, -2.5 to -3, -1.6 to
\* -2, 3.2 to 3), fails on the empty and on a non-numeric value, and never
\* returns a result without an error for a value that is not a finite number
\* representable in int64 (a decimal literal beyond the range, "1e30",
\* "inf", "nan").
C14_ParseInt ==
  Done("parseInt") =>
    /\ IntExamples
    /\ applied.in \in NotInInt64 => applied.out.err # Nil

\* The part of C14 that holds: the values named, the roundings and the two
\* failures.
C14_IntExamples == Done("parseInt") => IntExamples


\* The quoted form read back gives v and no error.
DecodesToValue ==
  applied.out = [value |-> applied.in.v, err |-> Nil]

\* C15 as stated: for every string v, its quoted form with each embedded
\* quote written doubled, or after a backslash, or any mix of the two,
\* decodes without error to v.
C15_EscapesEquivalent_AnyValue ==
  Done("parseQuotedValue") => DecodesToValue

\* No backslash of v comes immediately before a quote of v or at its end.
NoBackslashBeforeQuote(v) ==
  \A i \in 1..Len(v) :
    v[i] = "\\" => (i < Len(v) /\ v[i + 1] # "'")

\* C15: the two quote escapes are equivalent.  For every string v in which
\* no backslash comes immediately before a single quote or at the end, the
\* quoted form of v with each embedded quote written doubled, or after a
\* backslash, or any mix of the two, decodes without error to v.
C15_EscapesEquivalent ==
  (Done("parseQuotedValue") /\ NoBackslashBeforeQuote(applied.in.v))
    => DecodesToValue

\* A value with two quotes, one written doubled and one after a backslash,
\* and a backslash of its own, was decoded.
C15_Witness ==
  /\ Done("parseQuotedValue")
  /\ NoBackslashBeforeQuote(applied.in.v)
  /\ \E i, j, k \in 1..Len(applied.in.v) :
       /\ applied.in.v[i] = "'" /\ applied.in.mix[i]
       /\ applied.in.v[j] = "'" /\ ~applied.in.mix[j]
       /\ applied.in.v[k] = "\\"
  /\ applied.out.value = applied.in.v


\* C16: key/value splitting.  Only the first "=" of a line is a delimiter,
\* so an unquoted value keeps every later "="; a bare name and a name
\* followed by "=" alone both give the name with the empty value, the same
\* result; white space around the name and around an unquoted value is
\* removed, and white space between single quotes is kept.
C16_KeyValueSplit ==
  Done("parseKeyValue") =>
    applied.out = [name |-> applied.in.name,
                   value |-> (IF applied.in.form \in { "bare", "empty" }
                                THEN << >> ELSE applied.in.value),
                   err |-> Nil]

\* An unquoted value holding an "=" of its own, written with white space
\* around the name and the value, was stored with that "=".
C16_Witness ==
  /\ Done("parseKeyValue")
  /\ applied.in.form = "unquoted"
  /\ "=" \in Range(applied.in.value)
  /\ Len(applied.in.line) > Len(applied.in.value) + 5
  /\ applied.out.value = applied.in.value


\* The part byte k of the line plays: "out" outside a quoted run, "open"
\* and "close" for the quotes that begin and end a run, "in" inside a run,
\* "esc1" and "esc2" for the two bytes of a doubled or backslash escape
\* inside a run.
RECURSIVE ByteClass(_, _)
ByteClass(line, k) ==
  LET prev == IF k = 1 THEN "out" ELSE ByteClass(line, k - 1) IN
  IF prev = "esc1" THEN "esc2"
  ELSE IF prev \in { "out", "close" }
    THEN IF line[k] = "'" THEN "open" ELSE "out"
  ELSE IF line[k] \in { "'", "\\" } /\ k < Len(line) /\ line[k + 1] = "'"
    THEN "esc1"
  ELSE IF line[k] = "'" THEN "close"
  ELSE "in"

\* The positions of the "#" signs outside every quoted run.
CommentStarts(line) ==
  { k \in 1..Len(line) : line[k] = "#" /\ ByteClass(line, k) = "out" }

\* C17: comment stripping.  stripComment returns the prefix of the line
\* that ends just before the first "#" outside every single-quoted run, or
\* the whole line when there is none; a "#" inside a quoted run is kept, and
\* a quote that is part of a doubled or a backslash escape inside a run
\* does not end the run.
C17_StripComment ==
  Done("stripComment") =>
    LET line == applied.in
        starts == CommentStarts(line)
        first == CHOOSE k \in starts : \A j \in starts : k <= j
    IN  /\ starts = {} => applied.out = line
        /\ starts # {} => applied.out = Upto(line, first - 1)
        /\ line = << "k", " ", "#", " ", "c" >> =>
             applied.out = << "k", " " >>
        /\ line = << "'", "v", "#", "u", "'", " ", "#", " ", "c" >> =>
             applied.out = << "'", "v", "#", "u", "'", " " >>
        /\ line = << "'", "i", "t", "'", "'", "s", "'", " ", "#", " ", "c" >> =>
             applied.out = << "'", "i", "t", "'", "'", "s", "'", " " >>
        /\ line = << "'", "i", "t", "\\", "'", "s", "#", "'", " ", "#", "c" >> =>
             applied.out = << "'", "i", "t", "\\", "'", "s", "#", "'", " " >>
        /\ line = << "'", "\\", "'", "#" >> => applied.out = line
        /\ line = << "'", "'", "'", "#" >> => applied.out = line
        /\ line = << "\\", "'", "#", "'", "#" >> =>
             applied.out = << "\\", "'", "#", "'" >>

\* A line with a "#" inside a quoted run that holds an escaped quote, and a
\* "#" after the run: the first was kept and the line was cut at the
\* second.
C17_Witness ==
  /\ Done("stripComment")
  /\ \E e, k \in 1..Len(applied.out) :
       /\ e < k
       /\ ByteClass(applied.in, e) = "esc1"
       /\ applied.out[k] = "#"
  /\ Len(applied.out) < Len(applied.in)
  /\ applied.in[Len(applied.out) + 1] = "#"


\* LoadInto succeeded and built the struct that was saved.
RoundTrips ==
  applied.out = [y |-> applied.in.x, err |-> Nil]

\* C18: the struct round trip.  For every struct x with fields of the
\* supported kinds, SaveFrom(x, section, path) followed by
\* LoadInto(path, section, &y) into a zero-valued y succeeds and gives
\* y = x; every string field value that Marshal writes, quoted or not, is
\* read back as the identical string.
C18_RoundTrip == Done("LoadInto") => RoundTrips

\* The part of C18 that holds: the round trip of a struct whose unsigned
\* field is below 2^63 and whose string either is written without quotes
\* and has no white space at its ends, or is quoted and has no backslash
\* before a quote or at its end.
C18_RoundTripOfPlainValues ==
  (/\ Done("LoadInto")
   /\ IF quoteValue(applied.in.x.Str) = applied.in.x.Str
        THEN TrimSpace(applied.in.x.Str) = applied.in.x.Str
        ELSE NoBackslashBeforeQuote(applied.in.x.Str)
   /\ BigLess(applied.in.x.Cnt, Pow2To63))
    => RoundTrips

\* A struct with a quoted string holding a quote and "#", and the other
\* fields set, came back as it was saved.
C18_Reached ==
  /\ Done("LoadInto")
  /\ RoundTrips
  /\ "'" \in Range(applied.in.x.Str)
  /\ "#" \in Range(applied.in.x.Str)
  /\ applied.in.x.Flag
  /\ applied.in.section # << >>


\* The arguments before the separator are the two positional arguments and
\* known flags only: some of them are prefix flags, each followed by its
\* value, and the others are exactly two words that are not flags.
KnownFlagsAndTwoPositionals(pre) ==
  \E flags \in SUBSET (1..Len(pre)) :
    LET values == { k + 1 : k \in flags }
        words  == (1..Len(pre)) \ (flags \cup values)
    IN  /\ \A k \in flags : pre[k] \in { PrefixShort, PrefixLong }
        /\ values \subseteq 1..Len(pre)
        /\ values \cap flags = {}
        /\ \A k \in words : ~HasPrefix(pre[k], << "-" >>)
        /\ Cardinality(words) = 2

\* The 1-based position of the first separator of argv, 0 without one.
FirstSeparator(argv) ==
  IF \E k \in 1..Len(argv) : argv[k] = Dashes
    THEN CHOOSE k \in 1..Len(argv) :
           argv[k] = Dashes /\ \A j \in 1..(k - 1) : argv[j] # Dashes
    ELSE 0

\* The command returned is the arguments after the first separator.
PassedThrough(argv, out) ==
  /\ ~out.exited
  /\ out.err = Nil
  /\ out.a.command = SubSeq(argv, FirstSeparator(argv) + 1, Len(argv))

\* C19: for every argument vector with a "--" separator, a command after
\* it, and two positional arguments and only known flags before it,
\* parseArgs returns as command exactly the arguments after the first "--",
\* and no argument after the separator is taken as a flag of inigo.
C19_PassThrough ==
  Done("parseArgs") =>
    LET argv == applied.in
        d == FirstSeparator(argv)
    IN  (d > 0 /\ d < Len(argv)
         /\ KnownFlagsAndTwoPositionals(SubSeq(argv, 1, d - 1)))
          => PassedThrough(argv, applied.out)

\* C19, the part that holds: the same when no argument, before or after
\* the separator, is "-h" or "--help"; the call then also returns the two
\* positional arguments in order.
C19_PassThroughWithoutHelp ==
  Done("parseArgs") =>
    LET argv == applied.in
        d == FirstSeparator(argv)
    IN  (d > 0 /\ d < Len(argv)
         /\ KnownFlagsAndTwoPositionals(SubSeq(argv, 1, d - 1))
         /\ \A k \in 1..Len(argv) :
              argv[k] \notin { HelpShort, HelpLong })
          => /\ PassedThrough(argv, applied.out)
             /\ \E i, j \in 1..(d - 1) :
                  /\ i < j
                  /\ applied.out.a.iniFile = argv[i]
                  /\ applied.out.a.section = argv[j]

\* A command whose own arguments are spelled like the prefix flag and the
\* separator has been passed through.
C19_Reached ==
  /\ Done("parseArgs")
  /\ applied.in = << << "p", "g" >>, << "s" >>, Dashes, PrefixShort, Dashes >>
  /\ PassedThrough(applied.in, applied.out)


\* line starts with the keyword kw, compared without regard to case.
StartsWithKeyword(line, kw) ==
  /\ Len(line) >= Len(kw)
  /\ \A i \in 1..Len(kw) : ToLowerByte(line[i]) = kw[i]

SpaceOrQuote(ch) == IsSpace(ch) \/ ch = "'"

SpaceTabOrQuote(ch) == ch \in { " ", "\t", "'" }

\* The line of the source as parse hands it to handleInclude.
HandedToHandleInclude(raw) ==
  LET line == TrimSpace(stripComment(raw))
  IN  line # << >> /\ ~HasPrefix(line, << "[" >>)

\* The line is treated as the directive kw exactly when it starts with kw,
\* is longer than kw and a byte that IsSeparator accepts follows kw; a line
\* treated as no directive is parsed as a parameter assignment.
MatchedExactlyWhen(IsSeparator(_)) ==
  (Done("parse") /\ HandedToHandleInclude(applied.in)) =>
    LET line == TrimSpace(stripComment(applied.in))
        out  == applied.out
        Follows(kw) ==
          /\ StartsWithKeyword(line, kw)
          /\ Len(line) > Len(kw)
          /\ IsSeparator(line[Len(kw) + 1])
    IN  /\ \A kw \in { KwInclude, KwIncludeIfExists, KwIncludeDir } :
             (out.kind = "directive" /\ out.directive = kw) <=> Follows(kw)
        /\ out.kind \in { "directive", "param" }
        /\ out.kind = "param" => out.kv = parseKeyValue(line)

\* C20: a line is treated as directive K (include, include_if_exists,
\* include_dir, compared without regard to case) exactly when it starts
\* with K, is strictly longer than K and the character right after K is
\* white space or a single quote; every other line is parsed as a
\* parameter assignment.
C20_DirectiveMatching == MatchedExactlyWhen(SpaceOrQuote)

\* C20, the part that holds: the same with a space, a tab or a single
\* quote after K.
C20_DirectiveMatchingSpaceOrTab == MatchedExactlyWhen(SpaceTabOrQuote)

\* The four lines named in C20 have been parsed as parameters, and a
\* keyword in upper case with a quote right after it as a directive.
C20_Reached ==
  /\ Done("parse")
  /\ \/ /\ applied.in \in { KwInclude,
                            KwInclude \o << "d", " ", "=", " ", "t" >>,
                            KwInclude \o << "_", "v", "a", "r", " ", "=", " ", "5" >>,
                            KwInclude \o << "=", "x" >> }
        /\ applied.out.kind = "param"
     \/ /\ applied.in = ToUpper(KwIncludeDir) \o << "'", "d", "'" >>
        /\ applied.out.kind = "directive"
        /\ applied.out.directive = KwIncludeDir
        /\ applied.out.rest = << "'", "d", "'" >>


\* The files that the activations of parse in stk are reading, outermost
\* first (the reader given to Parse is no file of the parser's).
FilesBeingParsed(stk) ==
  LET frames == SelectSeq(stk, LAMBDA f : f.fn = "parse" /\ f.path # << >>)
  IN  [i \in 1..Len(frames) |-> frames[i].path]

\* C21: at any moment the open file handles are exactly the chain of files
\* being parsed, so each file opened by loadFile is closed when its parse
\* ends, with or without an error, and none is open when Load returns.
C21_HandlesReleased ==
  /\ handles = FilesBeingParsed(stack)
  /\ pc = "done" => handles = << >>

\* Load has returned an error raised while an included file was open, after
\* opening at least two files.
C21_Witness ==
  /\ pc = "done"
  /\ call = "Load"
  /\ result.err # Nil
  /\ cycleSeen
  /\ Cardinality(visited) >= 2
  /\ handles = << >>


\* The step adds the section name and changes no section stored before it.
AddsOneSection(name) ==
  /\ name \notin DOMAIN config.sections
  /\ DOMAIN config'.sections = DOMAIN config.sections \cup { name }
  /\ \A s \in DOMAIN config.sections :
       config'.sections[s] = config.sections[s]

\* The step stores one Param under key in the active section and changes
\* nothing else.
StoresOneParam(key) ==
  /\ DOMAIN config'.sections = DOMAIN config.sections
  /\ section \in DOMAIN config.sections
  /\ DOMAIN config'.sections[section] =
       DOMAIN config.sections[section] \cup { key }
  /\ \A k \in DOMAIN config.sections[section] \ { key } :
       config'.sections[section][k] = config.sections[section][k]
  /\ \A s \in DOMAIN config.sections \ { section } :
       config'.sections[s] = config.sections[s]

\* C22: across every step of a Parse or Load, inside included files too,
\* the section names and each section's lower-cased parameter names never
\* shrink; a step leaves the Config unchanged, adds one section, or inserts
\* or replaces exactly one parameter of the active section.
C22_InsertOrReplaceOnly ==
  [][ /\ DOMAIN config.sections \subseteq DOMAIN config'.sections
      /\ \A s \in DOMAIN config.sections :
           DOMAIN config.sections[s] \subseteq DOMAIN config'.sections[s]
      /\ \/ config' = config
         \/ \E name \in DOMAIN config'.sections : AddsOneSection(name)
         \/ \E key \in DOMAIN config'.sections[section] : StoresOneParam(key)
    ]_vars

\* An included file has replaced a parameter that was stored before, in a
\* Config of two sections.
C22_Witness ==
  /\ Cardinality(DOMAIN config.sections) >= 2
  /\ \E i, j \in 1..Len(assignLog) :
       /\ i < j
       /\ assignLog[i].sec = assignLog[j].sec
       /\ ToLower(assignLog[i].name) = ToLower(assignLog[j].name)
       /\ assignLog[i].file # assignLog[j].file


\* The step starts the parse of a file that loadFile has opened.
StartsParseOfFile ==
  /\ Len(stack') = Len(stack) + 1
  /\ stack'[Len(stack')].fn = "parse"
  /\ stack'[Len(stack')].path # << >>

\* The paths the step passes to loadFile: the path resolved for an include
\* directive, or for include_if_exists when the file exists, and the path
\* of the next file of a directory.
PathsRequested ==
  ( IF Len(requestLog') = Len(requestLog) + 1
      THEN LET r == requestLog'[Len(requestLog')] IN
           IF \/ r.directive = KwInclude
              \/ r.directive = KwIncludeIfExists /\ StatOk(r.resolved)
             THEN { r.resolved }
             ELSE {}
      ELSE {} )
    \cup
  ( IF /\ Running
       /\ Top.fn = "loadDir"
       /\ Top.idx < Len(Top.files)
       /\ Len(stack') >= Len(stack)
       /\ stack'[Len(stack)].idx = Top.idx + 1
      THEN { Join(Top.path, Top.files[Top.idx + 1]) }
      ELSE {} )

\* C23: the visited set only grows, also when the parse of a file completes;
\* the parse of a path is started only when the path enters the visited
\* set, so at most once in a Load call; and a request for a path in the
\* visited set fails with the circular-include error and starts no parse,
\* whether or not the file is still being parsed.
C23_LoadedAtMostOnce ==
  [][ /\ visited \subseteq visited'
      /\ StartsParseOfFile =>
           /\ stack'[Len(stack')].path \notin visited
           /\ stack'[Len(stack')].path \in visited'
      /\ \A path \in PathsRequested :
           path \in visited =>
             /\ err' = ErrCircular
             /\ visited' = visited
             /\ Len(stack') = Len(stack)
    ]_vars

\* Load has failed with the circular-include error although no file was
\* ever requested while it was being parsed.
C23_Witness ==
  /\ pc = "done"
  /\ call = "Load"
  /\ result.err = ErrCircular
  /\ ~cycleSeen


\* The path strings that the Load call has resolved so far: the path given
\* to Load, the paths of the include and include_if_exists directives, and
\* the paths of the files of the directories of the include_dir directives.
ResolvedPaths ==
  { Abs(entry) }
    \cup { r.resolved : r \in { q \in Range(requestLog) :
                                  q.directive # KwIncludeDir } }
    \cup UNION { { Join(r.resolved, name) :
                     name \in Range(confFiles(ReadDir(r.resolved).entries)) } :
                 r \in { q \in Range(requestLog) :
                           q.directive = KwIncludeDir } }

NoDuplicates(seq) ==
  \A i, j \in 1..Len(seq) : seq[i] = seq[j] => i = j

\* C24: a Load call that has been made eventually returns, a Config or an
\* error; and the file parses it starts are parses of distinct path strings
\* resolved from the directives, so their number is at most the number of
\* those strings.
C24_LoadTerminates ==
  /\ (pc = "running" /\ call = "Load") ~> (pc = "done")
  /\ [](call = "Load" =>
          /\ NoDuplicates(parseLog)
          /\ Range(parseLog) \subseteq ResolvedPaths
          /\ Len(parseLog) <= Cardinality(ResolvedPaths))

\* Load has returned after the parses of four files, reached through an
\* include_dir directive and another directive.
C24_Witness ==
  /\ pc = "done"
  /\ call = "Load"
  /\ Len(parseLog) >= 4
  /\ \E i, j \in 1..Len(requestLog) :
       /\ requestLog[i].directive = KwIncludeDir
       /\ requestLog[j].directive # KwIncludeDir


\* The number of "#" signs in s.
Hashes(s) == Cardinality({ k \in 1..Len(s) : s[k] = "#" })

\* The text of the value as parseKeyValue receives it: what follows the
\* first "=" of the line after stripComment, trimmed.
RawValue(raw) ==
  TrimSpace(CutEquals(TrimSpace(stripComment(raw))).after)

\* The line is an assignment that parse hands to parseKeyValue.
IsAssignment(raw) ==
  /\ HandedToHandleInclude(raw)
  /\ CutEquals(TrimSpace(stripComment(raw))).found

\* C25: comment stripping and value decoding agree on what is quoted.  In
\* a line whose value does not begin with a quote every "#" starts a
\* comment, also when the value contains a quote; and a "#" that survives
\* comment stripping lies inside the decoded content of a quoted value.
C25_QuotingAgrees ==
  (Done("parse") /\ applied.out.kind = "param" /\ IsAssignment(applied.in)) =>
    LET value == RawValue(applied.in)
        unquoted == value = << >> \/ value[1] # "'"
    IN  /\ unquoted => Hashes(stripComment(applied.in)) = 0
        /\ applied.out.kv.err = Nil =>
             Hashes(stripComment(applied.in)) = Hashes(applied.out.kv.value)

\* C25, the part that holds: the same for the lines in which no quote
\* comes before the first "#", and for the lines whose value is a single
\* quoted run that ends the line.
C25_QuotingAgreesOnOneQuotedRun ==
  (Done("parse") /\ applied.out.kind = "param" /\ IsAssignment(applied.in)) =>
    LET line == TrimSpace(stripComment(applied.in))
        value == RawValue(applied.in)
        first == CHOOSE k \in 1..Len(applied.in) :
                   /\ applied.in[k] = "#"
                   /\ \A j \in 1..(k - 1) : applied.in[j] # "#"
    IN  /\ ( /\ "#" \in Range(applied.in)
             /\ \A j \in 1..(first - 1) : applied.in[j] # "'" )
            => Hashes(stripComment(applied.in)) = 0
        /\ ( /\ value # << >>
             /\ value[1] = "'"
             /\ \A k \in 1..Len(value) :
                  ByteClass(value, k) = "close" <=> k = Len(value) )
            => /\ applied.out.kv.err = Nil
               /\ Hashes(stripComment(applied.in)) =
                    Hashes(applied.out.kv.value)

\* An assignment whose value is a quoted run with a "#" inside and a
\* comment after it.
C25_Reached ==
  /\ Done("parse")
  /\ applied.in = << "k", "=", "'", "#", "'", "#", "a" >>
  /\ applied.out.kind = "param"
  /\ applied.out.kv.value = << "#" >>


\* The line assigns v to the parameter name in one of the three forms.
AssignsIn(line, name, form) == line = name \o form \o << "v" >>

\* The line was parsed as the assignment of v to the parameter name.
ParsedAsAssignment(out, name) ==
  /\ out.kind = "param"
  /\ out.kv = [name |-> name, value |-> << "v" >>, err |-> Nil]

\* C26: for K in include, include_if_exists and include_dir the lines
\* "K=v", "K =v" and "K = v" are parsed as the assignment of v to the
\* parameter K, as for any other name, and none is dispatched as an include
\* directive.
C26_KeywordAssignable ==
  Done("parse") =>
    \A name \in { KwInclude, KwIncludeIfExists, KwIncludeDir,
                  << "i", "n", "c" >> } :
      \A form \in AssignForms :
        AssignsIn(applied.in, name, form) =>
          ParsedAsAssignment(applied.out, name)

\* C26, the part that holds: "K=v" is parsed as an assignment; "K =v" and
\* "K = v" are dispatched as the directive K with the argument "=v" or
\* "= v"; a parameter of another name is assigned in all three forms.
C26_KeywordAssignableWithoutSpace ==
  Done("parse") =>
    /\ \A name \in { KwInclude, KwIncludeIfExists, KwIncludeDir } :
         /\ AssignsIn(applied.in, name, << "=" >>) =>
              ParsedAsAssignment(applied.out, name)
         /\ \A form \in AssignForms \ { << "=" >> } :
              AssignsIn(applied.in, name, form) =>
                /\ applied.out.kind = "directive"
                /\ applied.out.directive = name
                /\ applied.out.rest = Tail(form) \o << "v" >>
    /\ \A form \in AssignForms :
         AssignsIn(applied.in, << "i", "n", "c" >>, form) =>
           ParsedAsAssignment(applied.out, << "i", "n", "c" >>)

\* "include_dir=v" has been parsed as an assignment.
C26_Reached ==
  /\ Done("parse")
  /\ AssignsIn(applied.in, KwIncludeDir, << "=" >>)
  /\ ParsedAsAssignment(applied.out, KwIncludeDir)


Keywords == { KwInclude, KwIncludeIfExists, KwIncludeDir }

\* The orders in which the three keywords can be tested.
KeywordOrders ==
  { order \in [1..3 -> Keywords] : { order[i] : i \in 1..3 } = Keywords }

\* The switch of handleInclude with the keywords tested in the given order.
RECURSIVE FirstMatch(_, _, _)
FirstMatch(line, order, i) ==
  IF i > Len(order)
    THEN [matched |-> FALSE, directive |-> << >>, rest |-> << >>]
    ELSE LET m == matchDirective(ToLower(line), line, order[i])
         IN  IF m.matched THEN m ELSE FirstMatch(line, order, i + 1)

\* C27: for every line matchDirective succeeds for at most one of the three
\* keywords, so the directive that handleInclude chooses, and its argument,
\* are the same in whatever order the keywords are tested.
C27_KeywordsExclusive ==
  (Done("parse") /\ HandedToHandleInclude(applied.in)) =>
    LET line == TrimSpace(stripComment(applied.in))
        matching == { kw \in Keywords :
                        matchDirective(ToLower(line), line, kw).matched }
    IN  /\ Cardinality(matching) <= 1
        /\ \A order \in KeywordOrders :
             LET m == FirstMatch(line, order, 1)
             IN  IF m.matched
                   THEN /\ applied.out.kind = "directive"
                        /\ applied.out.directive = m.directive
                        /\ applied.out.rest = m.rest
                   ELSE applied.out.kind = "param"

\* A line that begins with include_if_exists in capitals, and so with the
\* letters of include, has been dispatched as include_if_exists.
C27_Witness ==
  /\ Done("parse")
  /\ applied.in = ToUpper(KwIncludeIfExists) \o << " ", "'", "d" >>
  /\ applied.out.kind = "directive"
  /\ applied.out.directive = KwIncludeIfExists
  /\ applied.out.rest = << "'", "d" >>


\* The positions of the quotes of value that end a quoted run.
ClosingQuotes(value) ==
  { k \in 1..Len(value) : ByteClass(value, k) = "close" }

\* The line is an assignment whose value begins with a quote.
HasQuotedValue(raw) ==
  /\ IsAssignment(raw)
  /\ RawValue(raw) # << >>
  /\ RawValue(raw)[1] = "'"

\* C28: decoding a quoted value succeeds only when the first unescaped
\* closing quote is the last character of the value; a line with text after
\* the closing quote, such as "k = 'a' b", is rejected and not stored.
C28_WholeValueConsumed ==
  ( /\ Done("parse")
    /\ applied.out.kind = "param"
    /\ HasQuotedValue(applied.in) ) =>
    LET value == RawValue(applied.in)
    IN  /\ applied.out.kv.err = Nil =>
             /\ ClosingQuotes(value) # {}
             /\ \A k \in ClosingQuotes(value) : k = Len(value)
        /\ applied.in = << "k", "=", "'", "a", "'", "a" >> =>
             applied.out.kv.err # Nil

\* C28, the part that holds: decoding succeeds exactly when the value has
\* an unescaped closing quote, wherever it stands, and fails as an
\* unterminated string otherwise; the text after the first closing quote
\* is dropped.
C28_DecodedUpToClosingQuote ==
  ( /\ Done("parse")
    /\ applied.out.kind = "param"
    /\ HasQuotedValue(applied.in) ) =>
    LET value == RawValue(applied.in)
        first == CHOOSE k \in ClosingQuotes(value) :
                   \A j \in ClosingQuotes(value) : k <= j
    IN  /\ applied.out.kv.err = Nil <=> ClosingQuotes(value) # {}
        /\ ClosingQuotes(value) = {} =>
             applied.out.kv.err = ErrUnterminatedString
        /\ ClosingQuotes(value) # {} =>
             applied.out.kv.value = parseQuotedValue(Upto(value, first)).value

\* A quoted value without a closing quote has been rejected.
C28_Reached ==
  /\ Done("parse")
  /\ applied.in = << "k", "=", "'", "a", "\\", "'" >>
  /\ applied.out.kind = "param"
  /\ applied.out.kv.err = ErrUnterminatedString


\* C29: in every state of a Parse or Load the active section is one of the
\* sections stored in the Config; the default-section field is the section
\* stored under ""; every section is stored under its own name, which is
\* empty for the default section only; and every Param is stored under the
\* lower-cased form of its own name, which is a valid parameter name.
C29_ParserStateWellFormed ==
  /\ section \in DOMAIN config.sections
  /\ config.defaultSection = << >>
  /\ config.defaultSection \in DOMAIN config.sections
  /\ DOMAIN config.names = DOMAIN config.sections
  /\ \A s \in DOMAIN config.sections :
       /\ config.names[s] = s
       /\ (config.names[s] = << >>) <=> (s = config.defaultSection)
       /\ \A k \in DOMAIN config.sections[s] :
            /\ k = ToLower(config.sections[s][k].name)
            /\ isValidParamName(config.sections[s][k].name)

\* An included file has stored a parameter written with a capital letter
\* in a named section, which is the active section.
C29_Witness ==
  /\ pc = "running"
  /\ Len(stack) >= 2
  /\ section # << >>
  /\ \E k \in DOMAIN config.sections[section] :
       config.sections[section][k].name # k


\* The numbers a field of the kind can hold.
InRangeOf(kind, v) ==
  LET half == IF Bits(kind) = 64 THEN Pow2To63
              ELSE Big(Pow2(Bits(kind) - 1))
      whole == IF Bits(kind) = 64 THEN Pow2To64 ELSE Big(Pow2(Bits(kind)))
  IN  IF Unsigned(kind) THEN ~v.neg /\ BigLess(v.mag, whole)
      ELSE BigLess(v.mag, half) \/ (v.neg /\ v.mag = half)

\* C30: for a field of kind intN or uintN and every parameter value,
\* ApplyInto either sets the field to exactly the integer Param.Int returns
\* or returns an error that names the field; a value outside the range of
\* the field and a negative value for an unsigned field yield an error.
C30_NoWrongNumber ==
  Done("ApplyInto") =>
    /\ applied.out.err = Nil => applied.out.field = applied.out.int
    /\ applied.out.err # Nil => applied.out.named = FieldName
    /\ ~InRangeOf(applied.in.kind, applied.out.int) => applied.out.err # Nil

\* What holds: an error names the field, a negative value for an unsigned
\* field and a value Param.Int rejects yield one, and a number within the
\* range of the field is stored exactly; a number outside it is stored
\* modulo 2^N without an error.
C30_ExactWithinRange ==
  Done("ApplyInto") =>
    /\ applied.out.err # Nil => applied.out.named = FieldName
    /\ applied.out.err # Nil <=>
         \/ \A r \in parseInt(applied.in.value) : r.err # Nil
         \/ Unsigned(applied.in.kind) /\ applied.out.int.neg
    /\ applied.out.err = Nil /\ InRangeOf(applied.in.kind, applied.out.int)
         => applied.out.field = applied.out.int

\* 300 has been applied to a uint8 field and 200 to an int8 field.
C30_Reached ==
  /\ Done("ApplyInto")
  /\ applied.in \in { [kind |-> "uint8", value |-> << "3", "0", "0" >>],
                      [kind |-> "int8", value |-> << "2", "0", "0" >>] }
  /\ applied.out.err = Nil
  /\ applied.out.field \in { Int64(FALSE, Big(44)), Int64(TRUE, Big(56)) }

====
